---------------------------- MODULE Spec2Model ----------------------------
(***************************************************************************)
(* A model of the torc BitTorrent client (jmatss/torc-go): the messaging   *)
(* fabric (package com), the controller, the torrent handler, the peer     *)
(* handler with its reader and downloader tasks, and the part of the       *)
(* tracker state and of the storage layer that the downloader mutates.     *)
(*                                                                         *)
(* Every goroutine is a process with a program counter.  A step of a       *)
(* process runs from one blocking operation (channel send or receive,      *)
(* network read) to the next.  A channel send that the code performs is    *)
(* first put in the `out` list of the sending process and delivered by a   *)
(* Flush step when the queue has room, so a process blocked on a full      *)
(* queue is a state of the model.                                          *)
(*                                                                         *)
(* com.Channel is passed BY VALUE to every goroutine (Controller, Handler, *)
(* downloader): the Parent channel and the children map are shared         *)
(* references, the RWMutex is copied.  Each task therefore locks its own   *)
(* copy and the mutex excludes nobody; the operations on the children map  *)
(* are modelled as atomic steps and no lock state is kept for a bundle.    *)
(* The tracker mutex and the peer mutex are reached through pointers and   *)
(* are shared: a critical section under them is one atomic step.           *)
(***************************************************************************)
EXTENDS Integers, Sequences, FiniteSets, TLC

(***************************************************************************)
(* Bounds of the model.                                                    *)
(***************************************************************************)
\* Capacity of every queue.  com.ChanSize is 10 in the source; the model
\* scales the capacity down so that full queues are reached.
ChanSize == 2

\* The capacity of the queues in the runs that fill them.
NarrowChan == 1

\* Messages a remote peer sends in one session.
MaxRecv == 3
\* Peer handlers spawned in one run.
MaxPH == 4
\* Torrent handlers spawned in one run.
MaxTH == 2
\* Front-end commands in one run.
MaxCmd == 2
\* Periodic (interval) tracker announces in one run.
MaxTick == 1

(***************************************************************************)
(* Program constants.                                                      *)
(***************************************************************************)
MaxRequestLength == 16384
MaxRetryCount == 5
MaxPeers == 8

(***************************************************************************)
(* Bytes and bitfields.  A bitfield is a sequence of bytes (0..255); the   *)
(* operators below are Go's &, |, &^ and << on a byte and a one-bit mask.  *)
(***************************************************************************)
RECURSIVE Pow2(_)
Pow2(n) == IF n = 0 THEN 1 ELSE 2 * Pow2(n - 1)

\* byte(1 << s): the untyped constant 1 takes the type of the byte operand,
\* so a shift by 8 or more yields 0.
ByteShl(s) == Pow2(s) % 256

\* b & mask, for a mask that is 0 or a power of two.
ByteAnd(b, mask) == IF mask = 0 THEN 0 ELSE ((b \div mask) % 2) * mask

\* b | mask
ByteOr(b, mask) == b + (mask - ByteAnd(b, mask))

\* b &^ mask
ByteAndNot(b, mask) == b - ByteAnd(b, mask)

\* make([]byte, n)
ZeroBytes(n) == [i \in 1..n |-> 0]

\* Bit p of a bitfield in MSB-first order, as the specification reads it.
\* Go indexes bytes from 0, sequences are indexed from 1.
BitSet(bf, p) ==
    /\ (p \div 8) + 1 \in DOMAIN bf
    /\ ByteAnd(bf[(p \div 8) + 1], Pow2(7 - (p % 8))) # 0

BitsOf(bf) == {p \in 0..(8 * Len(bf) - 1) : BitSet(bf, p)}

(***************************************************************************)
(* Messages of the fabric (com.Message) and the fabric operations on a     *)
(* bundle [Parent |-> queue, children |-> key -> queue].                   *)
(***************************************************************************)
NoTorrent == "none"

Message(id, data, error, torrent, child) ==
    [Id |-> id, Data |-> data, Error |-> error, Torrent |-> torrent, Child |-> child]

New == [Parent |-> <<>>, children |-> [k \in {} |-> <<>>]]

Exists(ch, child) == child \in DOMAIN ch.children

CountChildren(ch) == Cardinality(DOMAIN ch.children)

\* ch.children[child] = make(chan Message, ChanSize): a registered key is
\* overwritten with a new, empty channel.
AddChild(ch, child) ==
    [ch EXCEPT !.children =
        [k \in (DOMAIN @) \cup {child} |-> IF k = child THEN <<>> ELSE @[k]]]

\* close(childCh); delete(ch.children, child): the part of RemoveChild after
\* the Exiting message has been sent.
DeleteChild(ch, child) ==
    [ch EXCEPT !.children = [k \in (DOMAIN @) \ {child} |-> @[k]]]



(***************************************************************************)
(* Byte strings.  A byte string is a sequence of integers.  A PIECE        *)
(* payload is <index, begin> followed by the block; a block is written     *)
(* <kind, piece, offset, length>: kind 1 is the genuine content of the     *)
(* torrent at that place, kind 0 is any other content of the same length.  *)
(***************************************************************************)
GenuineBlock(piece, offset, length) == <<1, piece, offset, length>>
ForgedBlock(piece, offset, length) == <<0, piece, offset, length>>

PiecePayload(index, begin, block) == <<index, begin>> \o block

\* binary.BigEndian.Uint32(pieceData[:4]), pieceData[4:8], pieceData[8:]
PayloadIndex(pieceData) == pieceData[1]
PayloadBegin(pieceData) == pieceData[2]
PayloadBlock(pieceData) == SubSeq(pieceData, 3, Len(pieceData))
\* len(data) of a block
BlockLen(block) == block[4]

\* sha1.Sum: collision free, so a digest is written as the string it is of.
Sha1(bytes) == [sha1 |-> bytes]

Min(a, b) == IF a < b THEN a ELSE b

\* The length of piece i of a torrent, from the metainfo.
TruePieceLength(tor, i) ==
    IF i = tor.count - 1 THEN tor.total - tor.PieceLength * (tor.count - 1)
    ELSE tor.PieceLength

\* The offsets of the blocks of piece i.
BlockOffsets(tor, i) ==
    {k * MaxRequestLength : k \in 0..((TruePieceLength(tor, i) - 1) \div MaxRequestLength)}

RECURSIVE ContentFrom(_, _, _)
ContentFrom(tor, i, b) ==
    IF b >= TruePieceLength(tor, i) THEN <<>>
    ELSE GenuineBlock(i, b, Min(MaxRequestLength, TruePieceLength(tor, i) - b))
         \o ContentFrom(tor, i, b + MaxRequestLength)

\* The content of piece i: its genuine blocks one after the other.
PieceContent(tor, i) == ContentFrom(tor, i, 0)

\* t.Info.Pieces[pieceIndex*sha1.Size : pieceIndex*sha1.Size+sha1.Size], the
\* digest the metainfo gives for piece i.  A metainfo is an input of the
\* program: the digest is the one of the piece's content (a standard
\* metainfo) or, when tor.framed, the one of the first PIECE payload of the
\* piece (the only digests IsCorrectPiece accepts a block for).
PiecesDigest(tor, i) ==
    IF tor.framed
    THEN Sha1(PiecePayload(i, 0,
              GenuineBlock(i, 0, Min(MaxRequestLength, TruePieceLength(tor, i)))))
    ELSE Sha1(PieceContent(tor, i))

\* IsCorrectPiece: the digest of the whole payload, its 8 byte header
\* included, against the digest of the piece named in the header.
IsCorrectPiece(tor, pieceData) ==
    Sha1(pieceData) = PiecesDigest(tor, PayloadIndex(pieceData))

(***************************************************************************)
(* The frames of the peer wire protocol: what Send and SendData write to   *)
(* the Connection of a Peer, and what Recv reads from it.                  *)
(***************************************************************************)
\* The message ids of the peer wire protocol.
MessageId ==
    [KeepAlive |-> -1, Choke |-> 0, UnChoke |-> 1, Interested |-> 2, NotInterested |-> 3,
     Have |-> 4, Bitfield |-> 5, Request |-> 6, Piece |-> 7, Cancel |-> 8]

MessageIds == {MessageId[n] : n \in DOMAIN MessageId}

\* The conversion byte(n) of an int.
ByteOf(n) == n % 256

\* binary.BigEndian.PutUint32
PutUint32(v) == <<(v \div 16777216) % 256, (v \div 65536) % 256, (v \div 256) % 256, v % 256>>

\* binary.BigEndian.Uint32
Uint32(b) == b[1] * 16777216 + b[2] * 65536 + b[3] * 256 + b[4]

\* Peer.Send: the bytes written to the Connection, or an error with nothing written.
Send(messageId, input) ==
    LET id == ByteOf(messageId)
        failed == [err |-> TRUE, data |-> <<>>]
    IN  CASE messageId = MessageId.KeepAlive -> [err |-> FALSE, data |-> <<0, 0, 0, 0>>]
          [] messageId \in {MessageId.Choke, MessageId.UnChoke,
                            MessageId.Interested, MessageId.NotInterested} ->
                [err |-> FALSE, data |-> <<0, 0, 0, 1, id>>]
          [] messageId = MessageId.Have ->
                IF Len(input) # 1 THEN failed
                ELSE [err |-> FALSE, data |-> <<0, 0, 0, ByteOf(5), id>> \o PutUint32(input[1])]
          [] messageId \in {MessageId.Request, MessageId.Cancel} ->
                IF Len(input) # 3 THEN failed
                ELSE [err |-> FALSE,
                      data |-> <<0, 0, 0, ByteOf(13), id>> \o PutUint32(input[1])
                                   \o PutUint32(input[2]) \o PutUint32(input[3])]
          [] OTHER -> failed

\* Peer.SendData: the bytes written to the Connection.
SendData(messageId, payload) ==
    LET lenPrefix == 1 + Len(payload)
        id == ByteOf(messageId)
    IN  [err |-> FALSE, data |-> <<0, 0, 0, ByteOf(lenPrefix), id>> \o payload]

\* What Recv returns with an error.
RecvFailed(left) == [Id |-> 0, Data |-> <<>>, Err |-> TRUE, left |-> left]

\* Peer.Recv on a Connection that holds the bytes conn: the message id, the
\* data and the error it returns, and the bytes it leaves on the Connection.
\* dataLen is a uint32: a length prefix of 0 makes it 0 - 1 = 2^32 - 1, which
\* is over the limit.
Recv(conn) ==
    LET n == Min(5, Len(conn))
        header == SubSeq(conn, 1, n)
        rest == SubSeq(conn, n + 1, Len(conn))
    IN  IF n = 0 THEN RecvFailed(conn)
        ELSE IF n = 4 THEN [Id |-> -1, Data |-> <<>>, Err |-> FALSE, left |-> rest]
        ELSE IF n < 4 THEN RecvFailed(rest)
        ELSE LET prefix == Uint32(SubSeq(header, 1, 4))
                 messageId == header[5]
             IN  IF prefix = 0 \/ prefix - 1 > MaxRequestLength * 2 THEN RecvFailed(rest)
                 ELSE IF Len(rest) < prefix - 1 THEN RecvFailed(<<>>)
                 ELSE [Id |-> messageId, Data |-> SubSeq(rest, 1, prefix - 1), Err |-> FALSE,
                       left |-> SubSeq(rest, prefix, Len(rest))]

(***************************************************************************)
(* Messages of a remote peer as Recv returns them (remoteDTO).             *)
(***************************************************************************)
DTO(id, data, err) == [Id |-> id, Data |-> data, Err |-> err]

\* Recv returns id 0 (Choke) and no data beside every read error.
RecvError == DTO("Choke", <<>>, TRUE)

(***************************************************************************)
(* The state.                                                              *)
(***************************************************************************)
VARIABLES
    cfg,                \* the inputs of the run: metainfo, tracker peers, what the remotes and the front end may send
    comView,            \* main's comController bundle: front end <-> controller
    comTorrentHandler,  \* the controller's bundle: controller <-> torrent handlers
    comPeerHandler,     \* per torrent handler, its bundle: torrent handler <-> peer handlers
    view,               \* the front end: commands sent so far
    ctrl,               \* the controller task
    th,                 \* the torrent handler tasks
    tracker,            \* per torrent handler, the Tracker of its Torrent
    storage,            \* per torrent handler, the blocks written to the files
    peerObj,            \* the Peer records the tracker responses created
    ph,                 \* the peer handler tasks
    rd,                 \* per peer handler, its reader task
    dl,                 \* per peer handler, its downloader task
    readChannel,        \* per peer handler, reader -> handler
    downloadChannel,    \* per peer handler, handler -> downloader
    panic,              \* a goroutine panicked (send on a closed channel): the process is dead
    codec,              \* one Connection of a Peer: a Send or SendData call, the bytes written, what Recv returns
    disk                \* the files of one Torrent: a WriteData call, the files written, what ReadData returns

vars == <<cfg, comView, comTorrentHandler, comPeerHandler, view, ctrl, th, tracker,
          storage, peerObj, ph, rd, dl, readChannel, downloadChannel, panic, codec, disk>>

\* ch <- msg on a buffered channel: possible when the buffer has room.  The
\* capacity of the queues is an input of the run.
CanSend(q) == Len(q) < cfg.chan

THs == 1..MaxTH

\* The numbers of the peer handlers of a run.  A run uses the first cfg.slots
\* of them: MaxPH, or as many as it takes to have more than MaxPeers handlers.
PHs == 1..(IF MaxPH > MaxPeers + 1 THEN MaxPH ELSE MaxPeers + 1)

InfoHashes == {"t1", "t2"}
PeerKeys == {"a:1", "b:1"}
controllerId == "controller"

FreeTH == {i \in THs : th[i].pc = "free"}
FreePH == {h \in 1..cfg.slots : ph[h].pc = "free"}
Lowest(S) == CHOOSE x \in S : \A y \in S : x <= y

\* A task has returned when it is at "done" with nothing left to send.
PHAlive(h) == ph[h].pc # "free" /\ ~(ph[h].pc = "done" /\ ph[h].out = <<>>)
THAlive(i) == th[i].pc # "free" /\ ~(th[i].pc = "done" /\ th[i].out = <<>>)

\* One pending channel send of a task: to the Parent queue of the bundle the
\* task is a child of ("parent"), to the queue of a child of the bundle the
\* task owns ("child", key), or to the download channel of a peer handler.
Out(to, key, msg) == [to |-> to, key |-> key, msg |-> msg]


RECURSIVE SetToSeq(_)
SetToSeq(S) ==
    IF S = {} THEN <<>>
    ELSE LET x == CHOOSE y \in S : TRUE IN <<x>> \o SetToSeq(S \ {x})

\* The orders in which a range loop may visit the keys of a map.
RECURSIVE Orders(_)
Orders(S) ==
    IF S = {} THEN {<<>>}
    ELSE UNION {{<<x>> \o o : o \in Orders(S \ {x})} : x \in S}

(***************************************************************************)
(* Initial values.                                                         *)
(***************************************************************************)
\* The Tracker of a new Torrent: Left is the total length, the bitfields are
\* all zeros, every other field is the zero value.
NewTracker(tor) ==
    [Started |-> FALSE, Completed |-> FALSE,
     Downloaded |-> 0, Left |-> tor.total,
     BitFieldHave |-> ZeroBytes((tor.count + 7) \div 8),
     BitFieldDownloading |-> ZeroBytes((tor.count + 7) \div 8),
     Peers |-> [k \in {} |-> 0]]

NoTracker ==
    [Started |-> FALSE, Completed |-> FALSE, Downloaded |-> 0, Left |-> 0,
     BitFieldHave |-> <<>>, BitFieldDownloading |-> <<>>, Peers |-> [k \in {} |-> 0]]

\* NewPeer: a Peer record as the tracker response parser creates it.
NewPeer(key) ==
    [HostAndPort |-> key, RemoteBitField |-> <<>>,
     PeerChoking |-> TRUE, PeerInterested |-> FALSE]

\* The ids of the messages to its parent that are counted for every handler.
Counted == {"Add", "TotalFailure", "Exiting"}

\* The torrent handler.  Kept for the record, and read by no task: hist, the
\* outcomes of its periodic announces; sent, how many messages of each
\* counted id it has put on the Parent queue; first, the outcome of its first
\* announce ("" before it); registered, whether it has called AddChild.
NoTH == [pc |-> "free", out |-> <<>>, tor |-> NoTorrent, retryCount |-> 0, ticks |-> 0,
         hist |-> <<>>, sent |-> [id \in Counted |-> 0], first |-> "",
         registered |-> FALSE]

\* The record of the messages sent, after the send o.
Sent(sent, o) ==
    IF o.to = "parent" /\ o.msg.Id \in Counted
    THEN [sent EXCEPT ![o.msg.Id] = @ + 1]
    ELSE sent

\* The peer handler.  Kept for the record, and read by no task: registered,
\* exiting, sent (as for the torrent handler) and cause, why the handler has
\* left its loop ("" while it has not).
NoPH == [pc |-> "free", out |-> <<>>, th |-> 0, key |-> "", obj |-> 0,
         registered |-> FALSE, exiting |-> 0, sent |-> [id \in Counted |-> 0],
         cause |-> "", wrote |-> {}]

NoRd == [pc |-> "free", n |-> 0]

NoReq == <<>>

\* The downloader: scan is the remote bitfield its last findFreePieceIndex
\* read, err the error its last downloadPiece returned ("" for nil).
NoDl == [pc |-> "free", out |-> <<>>, pieceIndex |-> 0, pieceLength |-> 0,
         begin |-> 0, requestLength |-> 0, choked |-> FALSE, req |-> NoReq,
         scan |-> <<>>, err |-> ""]

\* No call on the Connection is looked at.
NoCodec == [pc |-> "off", op |-> "", id |-> 0, input |-> <<>>, payload |-> <<>>,
            frame |-> <<>>, conn |-> <<>>, recv |-> [Id |-> 0, Data |-> <<>>, Err |-> FALSE]]

\* No call on the files is looked at.
NoDisk == [pc |-> "off", info |-> [PieceLength |-> 0, count |-> 0, Files |-> <<>>],
           atRoot |-> FALSE, pieceIndex |-> 0, begin |-> 0, data |-> <<>>, files |-> <<>>,
           wrote |-> [n |-> 0, err |-> FALSE], read |-> [data |-> <<>>, err |-> FALSE]]

\* The state when main has created its bundle and started the controller.
InitWith(c) ==
    /\ cfg = c
    /\ comView = New
    /\ comTorrentHandler = New
    /\ comPeerHandler = [i \in THs |-> New]
    /\ view = [sent |-> 0]
    /\ ctrl = [pc |-> "start", out |-> <<>>, quit |-> FALSE, direct |-> 0]
    /\ th = [i \in THs |-> NoTH]
    /\ tracker = [i \in THs |-> NoTracker]
    /\ storage = [i \in THs |-> {}]
    /\ peerObj = <<>>
    /\ ph = [h \in PHs |-> NoPH]
    /\ rd = [h \in PHs |-> NoRd]
    /\ dl = [h \in PHs |-> NoDl]
    /\ readChannel = [h \in PHs |-> <<>>]
    /\ downloadChannel = [h \in PHs |-> <<>>]
    /\ panic = FALSE

\* The metainfo of the torrent a torrent handler is in charge of.
Tor(i) == cfg.torrents[th[i].tor]

\* The ids of the peer protocol the handler has a case for.
KnownIds == {"KeepAlive", "Choke", "UnChoke", "Interested", "NotInterested", "Have",
             "Bitfield", "Request", "Piece", "Cancel"}

ToDownloader == {"Choke", "UnChoke", "Interested", "NotInterested", "Piece"}

\* The HAVE case: byteShift and bitShift as the handler computes them.
byteShift(pieceIndex) == pieceIndex \div 8
bitShift(pieceIndex) == 8 - (pieceIndex % 8)

\* A message the peer handler answers with TotalFailure.
IsFatal(h, dto) ==
    \/ dto.Err
    \/ dto.Id \notin KnownIds
    \/ /\ dto.Id = "Have"
       /\ byteShift(dto.Data[1]) > Len(peerObj[ph[h].obj].RemoteBitField)

(***************************************************************************)
(* Slots.  The tasks of a run are numbered as they are spawned; a task     *)
(* that is about to spawn waits while no number is free.                   *)
(***************************************************************************)
\* Spawn the peer handlers of torrent handler i for the keys in the sequence
\* ks, which are given the lowest free numbers.
RECURSIVE SpawnAll(_, _, _, _)
SpawnAll(phv, i, ks, peersMap) ==
    IF ks = <<>> THEN phv
    ELSE LET h == Lowest({x \in 1..cfg.slots : phv[x].pc = "free"})
         IN SpawnAll([phv EXCEPT ![h] = [NoPH EXCEPT !.pc = "hs", !.th = i,
                                          !.key = Head(ks), !.obj = peersMap[Head(ks)]]],
                     i, Tail(ks), peersMap)

\* The keys a range loop over the peers visits before it has counted
\* MaxPeers of them: any MaxPeers of the keys, or all of them.
SpawnChoices(S) ==
    {SetToSeq(T) : T \in {U \in SUBSET S : Cardinality(U) = Min(Cardinality(S), MaxPeers)}}


(***************************************************************************)
(* The front end (main): it sends commands to the controller with          *)
(* SendChild and logs what the controller sends up.                        *)
(***************************************************************************)
\* comController.SendChild(id, nil, nil, tor, controllerId).  The front end
\* sends a bounded sequence of commands, the n-th one of cfg.script[n];
\* SendChild returns false, and nothing is sent, while the controller has not
\* registered.
ViewSend ==
    /\ ~panic
    /\ view.sent < Len(cfg.script)
    /\ Exists(comView, controllerId)
    /\ CanSend(comView.children[controllerId])
    /\ \E c \in cfg.script[view.sent + 1] :
          comView' = [comView EXCEPT !.children[controllerId] =
                         Append(@, Message(c.Id, <<>>, FALSE, c.Torrent, controllerId))]
    /\ view' = [view EXCEPT !.sent = @ + 1]
    /\ UNCHANGED <<disk, codec, cfg, comTorrentHandler, comPeerHandler, ctrl, th, tracker, storage,
                   peerObj, ph, rd, dl, readChannel, downloadChannel, panic>>

\* received := <-comController.Parent
ViewRecv ==
    /\ ~panic
    /\ comView.Parent # <<>>
    /\ comView' = [comView EXCEPT !.Parent = Tail(@)]
    /\ UNCHANGED <<disk, codec, cfg, comTorrentHandler, comPeerHandler, view, ctrl, th, tracker,
                   storage, peerObj, ph, rd, dl, readChannel, downloadChannel, panic>>

(***************************************************************************)
(* The controller.                                                         *)
(***************************************************************************)
\* SendParentError(id, err): not among the sources of package com; it sends
\* id and the error to the parent, as SendParent does with no data.
SendParentError(id, err) == Out("parent", "", Message(id, <<>>, err, NoTorrent, ""))

\* SendParent(id, data, error, torrent, child)
SendParent(id, data, error, torrent, child) ==
    Out("parent", "", Message(id, data, error, torrent, child))

\* SendChildren(id, data): one send per child, in the order of the range loop.
SendChildren(ch, id, data, order) ==
    [n \in DOMAIN order |->
        Out("child", order[n], Message(id, data, FALSE, NoTorrent, order[n]))]

\* A SendChild that sends without looking the key up.
SendChildUnchecked(ch, id, data, error, torrent, child) ==
    <<Out("child", child, Message(id, data, error, torrent, child))>>

\* SendChild(id, data, error, torrent, child): the send, if the key is registered.
SendChild(ch, id, data, error, torrent, child) ==
    IF Exists(ch, child)
    THEN <<Out("child", child, Message(id, data, error, torrent, child))>>
    ELSE <<>>

\* SendParentCopy(msg, child): the copy goes up if the key is registered.
SendParentCopy(ch, msg, child) ==
    IF Exists(ch, child)
    THEN <<Out("parent", "", [msg EXCEPT !.Child = child])>>
    ELSE <<>>

\* comView.AddChild(childId); comTorrentHandler := com.New()
CtrlStart ==
    /\ ~panic
    /\ ctrl.pc = "start"
    /\ comView' = AddChild(comView, controllerId)
    /\ comTorrentHandler' = New
    /\ ctrl' = [ctrl EXCEPT !.pc = "loop"]
    /\ UNCHANGED <<disk, codec, cfg, comPeerHandler, view, th, tracker, storage, peerObj, ph, rd, dl,
                   readChannel, downloadChannel, panic>>

\* What the controller sends for a message of the front end that is not an
\* Add of a new torrent.
CtrlViewReply(m, order) ==
    CASE m.Id = "Add" /\ m.Torrent = NoTorrent ->
            <<SendParent("Failure", <<>>, TRUE, NoTorrent, controllerId)>>
      [] m.Id = "Add" ->
            <<SendParent("Failure", <<>>, TRUE, NoTorrent, controllerId)>>
      [] m.Id \in {"Remove", "Start", "Stop"} ->
            \* the key given to SendChild is the controller's own childId
            LET ok == SendChild(comTorrentHandler, m.Id, <<>>, FALSE, NoTorrent, controllerId)
            IN  IF ok # <<>> THEN ok
                ELSE <<SendParent("Failure", <<>>, TRUE, NoTorrent, controllerId)>>
      [] m.Id \in {"Quit", "List"} ->
            SendChildren(comTorrentHandler, m.Id, <<>>, order)
      [] m.Id = "LogLevel" ->
            <<SendParent("LogLevel", <<>>, FALSE, NoTorrent, controllerId)>>
      [] OTHER -> <<>>

\* case received := <-comView.GetChildChannel(childId)
CtrlRecvView ==
    /\ ~panic
    /\ ctrl.pc = "loop"
    /\ ctrl.out = <<>>
    /\ Exists(comView, controllerId)
    /\ comView.children[controllerId] # <<>>
    /\ LET m == Head(comView.children[controllerId])
           spawn == /\ m.Id = "Add"
                    /\ m.Torrent # NoTorrent
                    /\ ~Exists(comTorrentHandler, m.Torrent)
       IN /\ comView' = [comView EXCEPT !.children[controllerId] = Tail(@)]
          /\ IF spawn
             THEN \* go TorrentHandler(comTorrentHandler, received.Torrent)
                  LET i == Lowest(FreeTH)
                  IN /\ FreeTH # {}
                     /\ th' = [th EXCEPT ![i] = [NoTH EXCEPT !.pc = "req", !.tor = m.Torrent]]
                     /\ tracker' = [tracker EXCEPT ![i] = NewTracker(cfg.torrents[m.Torrent])]
                     /\ UNCHANGED ctrl
             ELSE /\ \E order \in Orders(DOMAIN comTorrentHandler.children) :
                        ctrl' = [ctrl EXCEPT !.out = CtrlViewReply(m, order),
                                             !.quit = @ \/ m.Id = "Quit"]
                  /\ UNCHANGED <<th, tracker>>
    /\ UNCHANGED <<disk, codec, cfg, comTorrentHandler, comPeerHandler, view, storage, peerObj, ph, rd, dl,
                   readChannel, downloadChannel, panic>>

\* case received := <-comTorrentHandler.Parent
CtrlRecvChild ==
    /\ ~panic
    /\ ctrl.pc = "loop"
    /\ ctrl.out = <<>>
    /\ comTorrentHandler.Parent # <<>>
    /\ LET m == Head(comTorrentHandler.Parent)
       IN ctrl' = [ctrl EXCEPT !.out =
                      IF m.Id \in {"Add", "Remove", "Start", "Stop", "List"}
                      THEN SendParentCopy(comView, m, controllerId)
                      ELSE <<>>]
    /\ comTorrentHandler' = [comTorrentHandler EXCEPT !.Parent = Tail(@)]
    /\ UNCHANGED <<disk, codec, cfg, comView, comPeerHandler, view, th, tracker, storage, peerObj, ph,
                   rd, dl, readChannel, downloadChannel, panic>>

\* The controller's pending send is delivered: to comView.Parent, or to the
\* queue of a torrent handler.  A send on a queue that RemoveChild has closed
\* in the meantime panics.
CtrlFlush ==
    /\ ~panic
    /\ ctrl.out # <<>>
    /\ LET o == Head(ctrl.out)
       IN IF o.to = "parent"
          THEN /\ CanSend(comView.Parent)
               /\ comView' = [comView EXCEPT !.Parent = Append(@, o.msg)]
               /\ UNCHANGED <<comTorrentHandler, panic>>
          ELSE IF ~Exists(comTorrentHandler, o.key)
          THEN /\ panic' = TRUE
               /\ UNCHANGED <<comView, comTorrentHandler>>
          ELSE /\ CanSend(comTorrentHandler.children[o.key])
               /\ comTorrentHandler' =
                     [comTorrentHandler EXCEPT !.children[o.key] = Append(@, o.msg)]
               /\ UNCHANGED <<comView, panic>>
    /\ ctrl' = [ctrl EXCEPT !.out = Tail(@)]
    /\ UNCHANGED <<disk, codec, cfg, comPeerHandler, view, th, tracker, storage, peerObj, ph, rd, dl,
                   readChannel, downloadChannel>>


(***************************************************************************)
(* The torrent handler (torrent.Handler).                                  *)
(***************************************************************************)
\* t.Tracker.Peers = peers on a successful announce: the peers of the
\* response, each a new Peer record.
RECURSIVE NewPeers(_)
NewPeers(ks) == IF ks = <<>> THEN <<>> ELSE <<NewPeer(Head(ks))>> \o NewPeers(Tail(ks))

PeersMap(ks, base) == [k \in {ks[n] : n \in DOMAIN ks} |->
                          base + (CHOOSE n \in DOMAIN ks : ks[n] = k)]

\* What the handler sends when its first announce has failed: Add with the
\* error.
FirstRequestFailedSilent(childId) == <<>>

FirstRequestFailed(childId) == <<SendParent("Add", <<>>, TRUE, childId, childId)>>

\* tor.Request(cons.PeerId) at the start of the handler.  TrackerRequest sets
\* Started before it contacts the tracker.
THRequest(i) ==
    /\ ~panic
    /\ th[i].pc = "req"
    /\ \E ok \in cfg.announce :
          IF ok
          THEN LET ks == SetToSeq(cfg.peers)
               IN /\ tracker' = [tracker EXCEPT ![i].Started = TRUE,
                                                ![i].Peers = PeersMap(ks, Len(peerObj))]
                  /\ peerObj' = peerObj \o NewPeers(ks)
                  /\ th' = [th EXCEPT ![i].pc = "add", ![i].first = "ok",
                                      ![i].out = <<SendParent("Add", <<>>, FALSE, th[i].tor, th[i].tor)>>]
          ELSE /\ tracker' = [tracker EXCEPT ![i].Started = TRUE]
               /\ th' = [th EXCEPT ![i].pc = "done", ![i].first = "failed",
                                   ![i].out = FirstRequestFailed(th[i].tor)]
               /\ UNCHANGED peerObj
    /\ UNCHANGED <<disk, codec, cfg, comView, comTorrentHandler, comPeerHandler, view, ctrl, storage,
                   ph, rd, dl, readChannel, downloadChannel, panic>>

\* comController.AddChild(childId); comPeerHandler := com.New(); the peer
\* handlers of up to MaxPeers peers are started.
THAdd(i) ==
    /\ ~panic
    /\ th[i].pc = "add"
    /\ th[i].out = <<>>
    /\ comTorrentHandler' = AddChild(comTorrentHandler, th[i].tor)
    /\ comPeerHandler' = [comPeerHandler EXCEPT ![i] = New]
    /\ \E ks \in SpawnChoices(DOMAIN tracker[i].Peers) :
          /\ Cardinality(FreePH) >= Len(ks)
          /\ ph' = SpawnAll(ph, i, ks, tracker[i].Peers)
    /\ th' = [th EXCEPT ![i].pc = "loop", ![i].retryCount = 0, ![i].registered = TRUE]
    /\ UNCHANGED <<disk, codec, cfg, comView, view, ctrl, tracker, storage, peerObj, rd, dl,
                   readChannel, downloadChannel, panic>>

\* case received := <-comController.GetChildChannel(childId)
THRecvController(i) ==
    /\ ~panic
    /\ th[i].pc = "loop"
    /\ th[i].out = <<>>
    /\ Exists(comTorrentHandler, th[i].tor)
    /\ comTorrentHandler.children[th[i].tor] # <<>>
    /\ LET m == Head(comTorrentHandler.children[th[i].tor])
           childId == th[i].tor
           count == CountChildren(comPeerHandler[i])
       IN /\ comTorrentHandler' = [comTorrentHandler EXCEPT !.children[childId] = Tail(@)]
          /\ CASE m.Id = "Remove" ->
                    /\ th' = [th EXCEPT ![i].pc = "exit",
                                        ![i].out = <<SendParent("Remove", <<>>, FALSE, NoTorrent, childId)>>]
                    /\ UNCHANGED ph
               [] m.Id = "Start" /\ count > 0 ->
                    /\ th' = [th EXCEPT ![i].out = <<SendParentError("Start", TRUE)>>]
                    /\ UNCHANGED ph
               [] m.Id = "Start" /\ count = 0 ->
                    /\ \E ks \in SpawnChoices(DOMAIN tracker[i].Peers) :
                          /\ Cardinality(FreePH) >= Len(ks)
                          /\ ph' = SpawnAll(ph, i, ks, tracker[i].Peers)
                    /\ th' = [th EXCEPT ![i].out = <<SendParent("Start", <<>>, FALSE, NoTorrent, childId)>>]
               [] m.Id = "Stop" ->
                    /\ \E order \in Orders(DOMAIN comPeerHandler[i].children) :
                          th' = [th EXCEPT ![i].out = SendChildren(comPeerHandler[i], "Quit", <<>>, order)]
                    /\ UNCHANGED ph
               [] m.Id = "List" ->
                    /\ th' = [th EXCEPT ![i].out = <<SendParent("List", <<>>, FALSE, childId, childId)>>]
                    /\ UNCHANGED ph
               [] m.Id = "Quit" ->
                    /\ th' = [th EXCEPT ![i].pc = "exit"]
                    /\ UNCHANGED ph
               [] OTHER -> UNCHANGED <<th, ph>>
    /\ UNCHANGED <<disk, codec, cfg, comView, comPeerHandler, view, ctrl, tracker, storage, peerObj,
                   rd, dl, readChannel, downloadChannel, panic>>

\* comController.SendChild(id, nil, nil, nil, childId) with the child id of
\* torrent handler i, its info hash: the command arrives on the queue that
\* torrent handler i reads its commands from.  At most MaxCmd commands arrive
\* this way, with the ids of cfg.direct.
Deliver(i, id) ==
    /\ ~panic
    /\ id \in cfg.direct
    /\ ctrl.direct < MaxCmd
    /\ th[i].tor # NoTorrent
    /\ SendChild(comTorrentHandler, id, <<>>, FALSE, NoTorrent, th[i].tor) # <<>>
    /\ CanSend(comTorrentHandler.children[th[i].tor])
    /\ comTorrentHandler' =
          [comTorrentHandler EXCEPT
              !.children[th[i].tor] = Append(@, Message(id, <<>>, FALSE, NoTorrent, th[i].tor))]
    /\ ctrl' = [ctrl EXCEPT !.direct = @ + 1]
    /\ UNCHANGED <<disk, codec, cfg, comView, comPeerHandler, view, th, tracker, storage, peerObj,
                   ph, rd, dl, readChannel, downloadChannel, panic>>

\* case received := <-comPeerHandler.Parent
THRecvPeer(i) ==
    /\ ~panic
    /\ th[i].pc = "loop"
    /\ th[i].out = <<>>
    /\ comPeerHandler[i].Parent # <<>>
    /\ LET m == Head(comPeerHandler[i].Parent)
           childId == th[i].tor
           \* the peers of the tracker map with no registered peer handler
           unregistered == {k \in DOMAIN tracker[i].Peers : ~Exists(comPeerHandler[i], k)}
       IN /\ comPeerHandler' = [comPeerHandler EXCEPT ![i].Parent = Tail(@)]
          /\ CASE m.Id = "Success" ->
                    /\ th' = [th EXCEPT ![i].out = SendParentCopy(comTorrentHandler, m, childId)]
                    /\ UNCHANGED ph
               [] m.Id = "Have" ->
                    /\ \E order \in Orders(DOMAIN comPeerHandler[i].children) :
                          th' = [th EXCEPT ![i].out = SendChildren(comPeerHandler[i], "Have", m.Data, order)]
                    /\ UNCHANGED ph
               [] m.Id = "TotalFailure" /\ unregistered # {} ->
                    \* go peer.Handler(comPeerHandler, val, tor) for the first
                    \* such peer the range loop visits
                    /\ FreePH # {}
                    /\ \E k \in unregistered :
                          ph' = SpawnAll(ph, i, <<k>>, tracker[i].Peers)
                    /\ UNCHANGED th
               [] OTHER -> UNCHANGED <<th, ph>>
    /\ UNCHANGED <<disk, codec, cfg, comView, comTorrentHandler, view, ctrl, tracker, storage, peerObj,
                   rd, dl, readChannel, downloadChannel, panic>>

\* retryCount after a periodic announce: retryCount++ when tor.Request has
\* failed, retryCount = 0 when it has not.
NextRetryCountKept(retryCount, ok) == IF ok THEN retryCount ELSE retryCount + 1

NextRetryCount(retryCount, ok) == IF ok THEN 0 ELSE retryCount + 1

\* case <-intervalTimer.C: the periodic announce.
THInterval(i) ==
    /\ ~panic
    /\ th[i].pc = "loop"
    /\ th[i].out = <<>>
    /\ th[i].ticks < cfg.ticks
    /\ \E ok \in cfg.announce :
          LET retryCount == NextRetryCount(th[i].retryCount, ok)
              givesUp == ~ok /\ retryCount >= MaxRetryCount
              ks == SetToSeq(cfg.peers)
          IN /\ th' = [th EXCEPT
                   ![i].retryCount = retryCount,
                   ![i].ticks = @ + 1,
                   ![i].hist = Append(@, ok),
                   ![i].pc = IF givesUp THEN "exit" ELSE @,
                   ![i].out = IF ok THEN <<>>
                              ELSE IF givesUp
                              THEN <<SendParentError("TotalFailure", TRUE)>>
                              ELSE <<SendParentError("Failure", TRUE)>>]
             /\ IF ok
                THEN /\ tracker' = [tracker EXCEPT ![i].Peers = PeersMap(ks, Len(peerObj))]
                     /\ peerObj' = peerObj \o NewPeers(ks)
                ELSE UNCHANGED <<tracker, peerObj>>
    /\ UNCHANGED <<disk, codec, cfg, comView, comTorrentHandler, comPeerHandler, view, ctrl, storage,
                   ph, rd, dl, readChannel, downloadChannel, panic>>

\* The handler returns: the deferred RemoveChild(childId) sends Exiting if
\* the key is registered.
THExit(i) ==
    /\ ~panic
    /\ th[i].pc = "exit"
    /\ th[i].out = <<>>
    /\ th' = [th EXCEPT
          ![i].pc = IF Exists(comTorrentHandler, th[i].tor) THEN "close" ELSE "done",
          ![i].out = IF Exists(comTorrentHandler, th[i].tor)
                     THEN <<SendParent("Exiting", <<>>, FALSE, NoTorrent, th[i].tor)>>
                     ELSE <<>>]
    /\ UNCHANGED <<disk, codec, cfg, comView, comTorrentHandler, comPeerHandler, view, ctrl, tracker,
                   storage, peerObj, ph, rd, dl, readChannel, downloadChannel, panic>>

\* close(childCh); delete(ch.children, child), and the handler is gone.
THClose(i) ==
    /\ ~panic
    /\ th[i].pc = "close"
    /\ th[i].out = <<>>
    /\ comTorrentHandler' = DeleteChild(comTorrentHandler, th[i].tor)
    /\ th' = [th EXCEPT ![i].pc = "done"]
    /\ UNCHANGED <<disk, codec, cfg, comView, comPeerHandler, view, ctrl, tracker, storage, peerObj,
                   ph, rd, dl, readChannel, downloadChannel, panic>>

\* A pending send of the torrent handler is delivered: to
\* comController.Parent, or to the queue of one of its peer handlers.
THFlush(i) ==
    /\ ~panic
    /\ th[i].out # <<>>
    /\ LET o == Head(th[i].out)
       IN IF o.to = "parent"
          THEN /\ CanSend(comTorrentHandler.Parent)
               /\ comTorrentHandler' = [comTorrentHandler EXCEPT !.Parent = Append(@, o.msg)]
               /\ UNCHANGED <<comPeerHandler, panic>>
          ELSE IF ~Exists(comPeerHandler[i], o.key)
          THEN /\ panic' = TRUE
               /\ UNCHANGED <<comTorrentHandler, comPeerHandler>>
          ELSE /\ CanSend(comPeerHandler[i].children[o.key])
               /\ comPeerHandler' =
                     [comPeerHandler EXCEPT ![i].children[o.key] = Append(@, o.msg)]
               /\ UNCHANGED <<comTorrentHandler, panic>>
    /\ th' = [th EXCEPT ![i].out = Tail(@), ![i].sent = Sent(@, Head(th[i].out))]
    /\ UNCHANGED <<disk, codec, cfg, comView, view, ctrl, tracker, storage, peerObj, ph, rd, dl,
                   readChannel, downloadChannel>>


(***************************************************************************)
(* The peer handler (peer.Handler).                                        *)
(***************************************************************************)
\* ((len(tor.Pieces) / sha1.Size) / 8) + 1
bitFieldLength(tor) == (tor.count \div 8) + 1

\* A handler that takes the bitfield of the remote whatever its length.
TakeBitfieldAnyLength(RemoteBitField, data) == data

\* case bt.Bitfield: if len(received.Data) == len(p.RemoteBitField) { p.RemoteBitField = received.Data }
TakeBitfield(RemoteBitField, data) ==
    IF Len(data) = Len(RemoteBitField) THEN data ELSE RemoteBitField

\* p.Handshake: it fails, the handler reports TotalFailure and returns with
\* nothing deferred; or it succeeds and the handler reports Success.
PHHandshake(h) ==
    /\ ~panic
    /\ ph[h].pc = "hs"
    /\ \E ok \in cfg.handshake[ph[h].key] :
          IF ok
          THEN ph' = [ph EXCEPT ![h].pc = "add",
                                ![h].out = <<SendParentError("Success", FALSE)>>]
          ELSE ph' = [ph EXCEPT ![h].pc = "done", ![h].cause = "handshake",
                                ![h].out = <<SendParentError("TotalFailure", TRUE)>>]
    /\ UNCHANGED <<disk, codec, cfg, comView, comTorrentHandler, comPeerHandler, view, ctrl, th, tracker,
                   storage, peerObj, rd, dl, readChannel, downloadChannel, panic>>

\* comTorrentHandler.AddChild(childId); the remote bitfield of the Peer is
\* allocated; the downloader and the reader are started.
PHAdd(h) ==
    /\ ~panic
    /\ ph[h].pc = "add"
    /\ ph[h].out = <<>>
    /\ comPeerHandler' = [comPeerHandler EXCEPT ![ph[h].th] = AddChild(@, ph[h].key)]
    /\ peerObj' = [peerObj EXCEPT ![ph[h].obj].RemoteBitField =
                      ZeroBytes(bitFieldLength(Tor(ph[h].th)))]
    /\ ph' = [ph EXCEPT ![h].pc = "loop", ![h].registered = TRUE]
    /\ dl' = [dl EXCEPT ![h] = [NoDl EXCEPT !.pc = "find"]]
    /\ rd' = [rd EXCEPT ![h] = [NoRd EXCEPT !.pc = "run"]]
    /\ UNCHANGED <<disk, codec, cfg, comView, comTorrentHandler, view, ctrl, th, tracker, storage,
                   readChannel, downloadChannel, panic>>

\* case com.Have: pieceIndex := binary.BigEndian.Uint32(received.Data);
\* p.Send(bt.Have, pieceIndex): the frame written to the remote.
HaveFrame(data) == Send(MessageId.Have, <<Uint32(data)>>).data

\* case received := <-comTorrentHandler.GetChildChannel(childId): the queue
\* the map holds for the key at this moment, none if the key is not there.
PHRecvParent(h) ==
    /\ ~panic
    /\ ph[h].pc = "loop"
    /\ ph[h].out = <<>>
    /\ Exists(comPeerHandler[ph[h].th], ph[h].key)
    /\ comPeerHandler[ph[h].th].children[ph[h].key] # <<>>
    /\ LET m == Head(comPeerHandler[ph[h].th].children[ph[h].key])
       IN /\ comPeerHandler' = [comPeerHandler EXCEPT ![ph[h].th].children[ph[h].key] = Tail(@)]
          /\ ph' = [ph EXCEPT ![h].pc = IF m.Id = "Quit" THEN "exit" ELSE @,
                               ![h].cause = IF m.Id = "Quit" THEN "quit" ELSE @,
                               ![h].wrote = IF m.Id = "Have" THEN @ \cup {HaveFrame(m.Data)} ELSE @]
    /\ UNCHANGED <<disk, codec, cfg, comView, comTorrentHandler, view, ctrl, th, tracker, storage,
                   peerObj, rd, dl, readChannel, downloadChannel, panic>>

\* case received := <-readChannel
PHRecvRemote(h) ==
    /\ ~panic
    /\ ph[h].pc = "loop"
    /\ ph[h].out = <<>>
    /\ readChannel[h] # <<>>
    /\ LET received == Head(readChannel[h])
           p == peerObj[ph[h].obj]
           toDl == Out("dl", "", received)
           fail == <<SendParentError("TotalFailure", FALSE)>>
       IN /\ readChannel' = [readChannel EXCEPT ![h] = Tail(@)]
          /\ CASE received.Err ->
                    /\ ph' = [ph EXCEPT ![h].pc = "exit", ![h].cause = "read",
                                        ![h].out = IF received.Id = "Piece"
                                                   THEN fail \o <<toDl>> ELSE fail]
                    /\ UNCHANGED <<peerObj, panic>>
               [] ~received.Err /\ received.Id \in ToDownloader ->
                    /\ peerObj' = [peerObj EXCEPT
                          ![ph[h].obj].PeerChoking =
                              CASE received.Id = "Choke" -> TRUE
                                [] received.Id = "UnChoke" -> FALSE
                                [] OTHER -> @,
                          ![ph[h].obj].PeerInterested =
                              CASE received.Id = "Interested" -> TRUE
                                [] received.Id = "NotInterested" -> FALSE
                                [] OTHER -> @]
                    /\ ph' = [ph EXCEPT ![h].out = <<toDl>>]
                    /\ UNCHANGED panic
               [] ~received.Err /\ received.Id = "Have" ->
                    LET pieceIndex == received.Data[1]
                    IN IF byteShift(pieceIndex) > Len(p.RemoteBitField)
                       THEN /\ ph' = [ph EXCEPT ![h].pc = "exit", ![h].cause = "have",
                                                ![h].out = fail]
                            /\ UNCHANGED <<peerObj, panic>>
                       ELSE IF byteShift(pieceIndex) = Len(p.RemoteBitField)
                       THEN \* index out of range: the runtime panics
                            /\ panic' = TRUE
                            /\ ph' = [ph EXCEPT ![h].pc = "crash", ![h].cause = "have"]
                            /\ UNCHANGED peerObj
                       ELSE /\ peerObj' = [peerObj EXCEPT
                                  ![ph[h].obj].RemoteBitField[byteShift(pieceIndex) + 1] =
                                      ByteOr(@, ByteShl(bitShift(pieceIndex)))]
                            /\ UNCHANGED <<ph, panic>>
               [] ~received.Err /\ received.Id = "Bitfield" ->
                    /\ peerObj' = [peerObj EXCEPT ![ph[h].obj].RemoteBitField =
                          TakeBitfield(@, received.Data)]
                    /\ UNCHANGED <<ph, panic>>
               [] ~received.Err /\ received.Id \in {"KeepAlive", "Request", "Cancel"} ->
                    UNCHANGED <<ph, peerObj, panic>>
               [] OTHER ->
                    /\ ph' = [ph EXCEPT ![h].pc = "exit", ![h].cause = "id", ![h].out = fail]
                    /\ UNCHANGED <<peerObj, panic>>
    /\ UNCHANGED <<disk, codec, cfg, comView, comTorrentHandler, comPeerHandler, view, ctrl, th, tracker,
                   storage, rd, dl, downloadChannel>>

\* The handler returns: the deferred RemoveChild(childId) sends Exiting if
\* the key is registered.
PHExit(h) ==
    /\ ~panic
    /\ ph[h].pc = "exit"
    /\ ph[h].out = <<>>
    /\ LET registered == Exists(comPeerHandler[ph[h].th], ph[h].key)
       IN ph' = [ph EXCEPT
             ![h].pc = IF registered THEN "close" ELSE "done",
             ![h].exiting = IF registered THEN @ + 1 ELSE @,
             ![h].out = IF registered
                        THEN <<SendParent("Exiting", <<>>, FALSE, NoTorrent, ph[h].key)>>
                        ELSE <<>>]
    /\ UNCHANGED <<disk, codec, cfg, comView, comTorrentHandler, comPeerHandler, view, ctrl, th, tracker,
                   storage, peerObj, rd, dl, readChannel, downloadChannel, panic>>

\* close(childCh); delete(ch.children, child); then the deferred
\* p.Connection.Close(), and the handler is gone.
PHClose(h) ==
    /\ ~panic
    /\ ph[h].pc = "close"
    /\ ph[h].out = <<>>
    /\ comPeerHandler' = [comPeerHandler EXCEPT ![ph[h].th] = DeleteChild(@, ph[h].key)]
    /\ ph' = [ph EXCEPT ![h].pc = "done"]
    /\ UNCHANGED <<disk, codec, cfg, comView, comTorrentHandler, view, ctrl, th, tracker, storage,
                   peerObj, rd, dl, readChannel, downloadChannel, panic>>

\* A pending send of the peer handler is delivered: to comTorrentHandler.Parent
\* or to its downloadChannel.
PHFlush(h) ==
    /\ ~panic
    /\ ph[h].out # <<>>
    /\ LET o == Head(ph[h].out)
       IN IF o.to = "parent"
          THEN /\ CanSend(comPeerHandler[ph[h].th].Parent)
               /\ comPeerHandler' = [comPeerHandler EXCEPT ![ph[h].th].Parent = Append(@, o.msg)]
               /\ UNCHANGED downloadChannel
          ELSE /\ CanSend(downloadChannel[h])
               /\ downloadChannel' = [downloadChannel EXCEPT ![h] = Append(@, o.msg)]
               /\ UNCHANGED comPeerHandler
    /\ ph' = [ph EXCEPT ![h].out = Tail(@), ![h].sent = Sent(@, Head(ph[h].out))]
    /\ UNCHANGED <<disk, codec, cfg, comView, comTorrentHandler, view, ctrl, th, tracker, storage,
                   peerObj, rd, dl, readChannel, panic>>


(***************************************************************************)
(* The reader task of a peer handler and the remote peer behind it.        *)
(***************************************************************************)
\* What Recv may return next.  The remote behind the peer key sends a bounded
\* sequence of messages, the n-th of one of the kinds cfg.remote[key][n]; a
\* PIECE answers the last REQUEST of the downloader, with the genuine block
\* ("Piece") or with another block of the same length ("Forged"); "Other" is
\* a PIECE nobody asked for, the genuine first block of the piece after the
\* requested one; "Err" is a failed Recv.
RemoteMsgs(h) ==
    LET kinds == cfg.remote[ph[h].key][rd[h].n + 1]
        req == dl[h].req
        tor == Tor(ph[h].th)
        other == IF req = NoReq THEN 0 ELSE (req[1] + 1) % tor.count
    IN {DTO(id, <<>>, FALSE) :
            id \in kinds \ {"Bitfield", "Have", "Piece", "Forged", "Other", "Err"}}
       \cup (IF "Other" \in kinds /\ req # NoReq
             THEN {DTO("Piece",
                       PiecePayload(other, 0,
                           GenuineBlock(other, 0,
                               Min(MaxRequestLength, TruePieceLength(tor, other)))),
                       FALSE)}
             ELSE {})
       \cup (IF "Bitfield" \in kinds
             THEN {DTO("Bitfield", b, FALSE) : b \in cfg.bitfields} ELSE {})
       \cup (IF "Have" \in kinds
             THEN {DTO("Have", <<p>>, FALSE) : p \in cfg.haves} ELSE {})
       \cup (IF "Piece" \in kinds /\ req # NoReq
             THEN {DTO("Piece", PiecePayload(req[1], req[2],
                                             GenuineBlock(req[1], req[2], req[3])), FALSE)}
             ELSE {})
       \cup (IF "Forged" \in kinds /\ req # NoReq
             THEN {DTO("Piece", PiecePayload(req[1], req[2],
                                             ForgedBlock(req[1], req[2], req[3])), FALSE)}
             ELSE {})
       \cup (IF "Err" \in kinds THEN {RecvError} ELSE {})

\* for { id, data, err := p.Recv(); readChannel <- remoteDTO{id, data, err};
\* if err != nil { return } }.  Once the handler has returned the connection
\* is closed and Recv returns an error.
Reader(h) ==
    /\ ~panic
    /\ rd[h].pc = "run"
    /\ CanSend(readChannel[h])
    /\ IF ph[h].pc = "done"
       THEN /\ readChannel' = [readChannel EXCEPT ![h] = Append(@, RecvError)]
            /\ rd' = [rd EXCEPT ![h].pc = "done"]
       ELSE /\ rd[h].n < Len(cfg.remote[ph[h].key])
            /\ \E dto \in RemoteMsgs(h) :
                  /\ readChannel' = [readChannel EXCEPT ![h] = Append(@, dto)]
                  /\ rd' = [rd EXCEPT ![h].n = @ + 1,
                                      ![h].pc = IF dto.Err THEN "done" ELSE @]
    /\ UNCHANGED <<disk, codec, cfg, comView, comTorrentHandler, comPeerHandler, view, ctrl, th, tracker,
                   storage, peerObj, ph, dl, downloadChannel, panic>>

(***************************************************************************)
(* The downloader task of a peer handler.                                  *)
(***************************************************************************)
\* A loop that takes every piece the remote has, claimed or not.
FreePiecesAnyLocal(tor, tr, p) ==
    {i \in 0..(tor.count - 1) :
        ByteAnd(p.RemoteBitField[(i \div 8) + 1], Pow2(7 - (i % 8))) = 1}

\* The loop of findFreePieceIndex: the pieces i for which localAvailable == 0
\* and remoteAvailable == 1 hold.
FreePieces(tor, tr, p) ==
    {i \in 0..(tor.count - 1) :
        LET byteIndex == i \div 8
            bitIndex == i % 8
            localAvailable == ByteAnd(tr.BitFieldDownloading[byteIndex + 1], Pow2(7 - bitIndex))
            remoteAvailable == ByteAnd(p.RemoteBitField[byteIndex + 1], Pow2(7 - bitIndex))
        IN localAvailable = 0 /\ remoteAvailable = 1}

\* A findFreePieceIndex that returns the piece and leaves BitFieldDownloading
\* as it is.
findFreePieceIndexUnmarked(tor, tr, p) ==
    LET free == FreePieces(tor, tr, p)
    IN IF free = {}
       THEN [err |-> TRUE, pieceIndex |-> 0, tracker |-> tr]
       ELSE [err |-> FALSE, pieceIndex |-> Lowest(free), tracker |-> tr]

\* findFreePieceIndex, under the tracker mutex and the peer mutex: the first
\* such piece is marked in BitFieldDownloading and returned.
findFreePieceIndex(tor, tr, p) ==
    LET free == FreePieces(tor, tr, p)
        i == Lowest(free)
    IN IF free = {}
       THEN [err |-> TRUE, pieceIndex |-> 0, tracker |-> tr]
       ELSE [err |-> FALSE, pieceIndex |-> i,
             tracker |-> [tr EXCEPT !.BitFieldDownloading[(i \div 8) + 1] =
                                        ByteOr(@, Pow2(7 - (i % 8)))]]

\* The deferred function of downloadPiece, under the tracker mutex.  err is
\* the variable the closure captured.
DeferBitFields(tr, pieceIndex, err) ==
    LET byteIndex == pieceIndex \div 8
        bitIndex == pieceIndex % 8
    IN IF err
       THEN [tr EXCEPT !.BitFieldDownloading[byteIndex + 1] = ByteAndNot(@, Pow2(7 - bitIndex))]
       ELSE [tr EXCEPT !.BitFieldHave[byteIndex + 1] = ByteOr(@, Pow2(7 - bitIndex))]

\* The variable err the deferred closure of downloadPiece reads is the one
\* declared with pieceIndex at the call of findFreePieceIndex.  Past the
\* check that follows the call it is nil, and no return statement assigns it:
\* the results of downloadPiece are unnamed, and the err of the WriteData
\* call is another variable, local to the loop body.
CapturedErr == FALSE

\* WriteData: the checks of the header, then the write (which succeeds or
\* not: ioOk), then the counters.
WriteData(tor, tr, st, pieceData, ioOk) ==
    LET pieceIndex == PayloadIndex(pieceData)
        begin == PayloadBegin(pieceData)
        data == PayloadBlock(pieceData)
    IN IF pieceIndex >= tor.count \/ begin >= tor.PieceLength
          \/ BlockLen(data) > MaxRequestLength \/ ~ioOk
       THEN [err |-> TRUE, tracker |-> tr, storage |-> st]
       ELSE [err |-> FALSE,
             tracker |-> [tr EXCEPT !.Downloaded = @ + BlockLen(data),
                                    !.Left = @ - BlockLen(data)],
             storage |-> st \cup {pieceData}]

\* pieceIndex, err := findFreePieceIndex(t, p); pieceLength
DlFind(h) ==
    /\ ~panic
    /\ dl[h].pc = "find"
    /\ dl[h].out = <<>>
    /\ LET i == ph[h].th
           tor == Tor(i)
           r == findFreePieceIndex(tor, tracker[i], peerObj[ph[h].obj])
       IN IF r.err
          THEN /\ dl' = [dl EXCEPT ![h].pc = "done", ![h].err = "nofree",
                                   ![h].scan = peerObj[ph[h].obj].RemoteBitField]
               /\ UNCHANGED tracker
          ELSE /\ tracker' = [tracker EXCEPT ![i] = r.tracker]
               /\ dl' = [dl EXCEPT ![h].pc = "loop",
                                   ![h].scan = peerObj[ph[h].obj].RemoteBitField,
                                   ![h].pieceIndex = r.pieceIndex,
                                   ![h].begin = 0,
                                   ![h].pieceLength =
                                       IF r.pieceIndex = tor.count - 1
                                       THEN tracker[i].Left ELSE tor.PieceLength]
    /\ UNCHANGED <<disk, codec, cfg, comView, comTorrentHandler, comPeerHandler, view, ctrl, th, storage,
                   peerObj, ph, rd, readChannel, downloadChannel, panic>>

\* The head of the block loop: the piece is complete (the deferred function
\* runs, Have goes to the torrent handler), or the next block is requested,
\* unless the remote chokes.
DlLoop(h) ==
    /\ ~panic
    /\ dl[h].pc = "loop"
    /\ LET i == ph[h].th
           d == dl[h]
           requestLength == IF d.begin + MaxRequestLength > d.pieceLength
                            THEN d.pieceLength - d.begin ELSE MaxRequestLength
       IN IF d.begin < d.pieceLength
          THEN /\ dl' = [dl EXCEPT ![h].pc = IF peerObj[ph[h].obj].PeerChoking
                                             THEN "recv" ELSE "send",
                                   ![h].requestLength = requestLength,
                                   ![h].choked = peerObj[ph[h].obj].PeerChoking]
               /\ UNCHANGED tracker
          ELSE /\ tracker' = [tracker EXCEPT ![i] = DeferBitFields(@, d.pieceIndex, CapturedErr)]
               /\ dl' = [dl EXCEPT ![h].pc = "find",
                                   ![h].out = <<SendParent("Have", PutUint32(d.pieceIndex), FALSE, NoTorrent, "")>>]
    /\ UNCHANGED <<disk, codec, cfg, comView, comTorrentHandler, comPeerHandler, view, ctrl, th, storage,
                   peerObj, ph, rd, readChannel, downloadChannel, panic>>

\* p.Send(bt.Request, pieceIndex, begin, requestLength), in the else branch
\* of if p.PeerChoking: the REQUEST is written some time after the flag was
\* read as false.
DlSend(h) ==
    /\ ~panic
    /\ dl[h].pc = "send"
    /\ dl' = [dl EXCEPT ![h].pc = "recv",
                        ![h].req = <<dl[h].pieceIndex, dl[h].begin, dl[h].requestLength>>]
    /\ UNCHANGED <<disk, codec, cfg, comView, comTorrentHandler, comPeerHandler, view, ctrl, th, tracker,
                   storage, peerObj, ph, rd, readChannel, downloadChannel, panic>>

\* received = <-downloadChannel and what follows it: an error record ends
\* downloadPiece; while choked any message restarts the wait; a PIECE is
\* checked with IsCorrectPiece and written with WriteData.  Every return of
\* downloadPiece runs the deferred function; a return with an error ends the
\* downloader.
DlRecv(h) ==
    /\ ~panic
    /\ dl[h].pc = "recv"
    /\ downloadChannel[h] # <<>>
    /\ LET i == ph[h].th
           d == dl[h]
           received == Head(downloadChannel[h])
       IN /\ downloadChannel' = [downloadChannel EXCEPT ![h] = Tail(@)]
          /\ IF received.Err
             THEN /\ tracker' = [tracker EXCEPT ![i] = DeferBitFields(@, d.pieceIndex, CapturedErr)]
                  /\ dl' = [dl EXCEPT ![h].pc = "done", ![h].err = "recv"]
                  /\ UNCHANGED storage
             ELSE IF d.choked \/ received.Id # "Piece"
             THEN /\ dl' = [dl EXCEPT ![h].pc = "loop"]
                  /\ UNCHANGED <<tracker, storage>>
             ELSE IF ~IsCorrectPiece(Tor(i), received.Data)
             THEN /\ tracker' = [tracker EXCEPT ![i] = DeferBitFields(@, d.pieceIndex, CapturedErr)]
                  /\ dl' = [dl EXCEPT ![h].pc = "done", ![h].err = "hash"]
                  /\ UNCHANGED storage
             ELSE \E ioOk \in cfg.io :
                     LET w == WriteData(Tor(i), tracker[i], storage[i], received.Data, ioOk)
                     IN IF w.err
                        THEN /\ tracker' = [tracker EXCEPT
                                   ![i] = DeferBitFields(@, d.pieceIndex, CapturedErr)]
                             /\ dl' = [dl EXCEPT ![h].pc = "done", ![h].err = "write"]
                             /\ UNCHANGED storage
                        ELSE /\ tracker' = [tracker EXCEPT ![i] = w.tracker]
                             /\ storage' = [storage EXCEPT ![i] = w.storage]
                             /\ dl' = [dl EXCEPT ![h].pc = "loop",
                                                 ![h].begin = @ + d.requestLength]
    /\ UNCHANGED <<disk, codec, cfg, comView, comTorrentHandler, comPeerHandler, view, ctrl, th, peerObj,
                   ph, rd, readChannel, panic>>

\* comTorrentHandler.SendParent(com.Have, data, nil, nil, "") is delivered.
DlFlush(h) ==
    /\ ~panic
    /\ dl[h].out # <<>>
    /\ CanSend(comPeerHandler[ph[h].th].Parent)
    /\ comPeerHandler' = [comPeerHandler EXCEPT ![ph[h].th].Parent = Append(@, Head(dl[h].out).msg)]
    /\ dl' = [dl EXCEPT ![h].out = Tail(@)]
    /\ UNCHANGED <<disk, codec, cfg, comView, comTorrentHandler, view, ctrl, th, tracker, storage,
                   peerObj, ph, rd, readChannel, downloadChannel, panic>>


(***************************************************************************)
(* The mutex of a bundle.  A handler is given its bundle by value: the     *)
(* copy shares the two channels and the child map, and has a mutex of its  *)
(* own.  The accesses of two tasks to the map of one bundle are therefore  *)
(* not ordered; when one of them writes the map and they happen at the     *)
(* same instant the runtime may end the program ("concurrent map writes",  *)
(* "concurrent map read and map write").                                   *)
(***************************************************************************)
\* Peer handler h is about to write the child map: AddChild, or RemoveChild.
PHWriting(h) == ph[h].out = <<>> /\ ph[h].pc \in {"add", "exit", "close"}

\* Torrent handler i is about to write the child map of the controller's
\* bundle: AddChild, or RemoveChild.
THWriting(i) == th[i].out = <<>> /\ th[i].pc \in {"add", "exit", "close"}

\* Torrent handler i is about to read the child map of its own bundle:
\* Exists, SendChildren or CountChildren for the message it is about to take.
THReading(i) ==
    /\ th[i].pc = "loop" /\ th[i].out = <<>>
    /\ \/ /\ comPeerHandler[i].Parent # <<>>
          /\ Head(comPeerHandler[i].Parent).Id \in {"Have", "TotalFailure"}
       \/ /\ Exists(comTorrentHandler, th[i].tor)
          /\ comTorrentHandler.children[th[i].tor] # <<>>
          /\ Head(comTorrentHandler.children[th[i].tor]).Id \in {"Start", "Stop"}

\* The controller is about to read the child map of its bundle: Exists,
\* SendChild or SendChildren for the message of the front end it is about to
\* take.
CtrlReading ==
    /\ ctrl.pc = "loop" /\ ctrl.out = <<>>
    /\ Exists(comView, controllerId)
    /\ comView.children[controllerId] # <<>>
    /\ Head(comView.children[controllerId]).Id
          \in {"Add", "Remove", "Start", "Stop", "Quit", "List"}

\* Two accesses to one child map, one of them a write, happen together and
\* the runtime ends the program.  (That they happen one after the other is
\* what the actions of the tasks describe.)
MapRace ==
    /\ ~panic
    /\ \/ \E g, h \in PHs : g # h /\ ph[g].th = ph[h].th /\ PHWriting(g) /\ PHWriting(h)
       \/ \E g \in PHs : PHWriting(g) /\ THReading(ph[g].th)
       \/ \E i, j \in THs : i # j /\ THWriting(i) /\ THWriting(j)
       \/ \E i \in THs : THWriting(i) /\ CtrlReading
    /\ panic' = TRUE
    /\ UNCHANGED <<disk, codec, cfg, comView, comTorrentHandler, comPeerHandler, view, ctrl, th, tracker,
                   storage, peerObj, ph, rd, dl, readChannel, downloadChannel>>

(***************************************************************************)
(* The next-state relation: every task of the program and the front end.   *)
(* A panic ends the program: no task takes a step after it.                *)
(***************************************************************************)
Next ==
    \/ ViewSend
    \/ ViewRecv
    \/ CtrlStart
    \/ CtrlRecvView
    \/ CtrlRecvChild
    \/ CtrlFlush
    \/ \E i \in THs : THRequest(i)
    \/ \E i \in THs : THAdd(i)
    \/ \E i \in THs : THRecvController(i)
    \/ \E i \in THs : THRecvPeer(i)
    \/ \E i \in THs : THInterval(i)
    \/ \E i \in THs : THExit(i)
    \/ \E i \in THs : THClose(i)
    \/ \E i \in THs : THFlush(i)
    \/ \E h \in PHs : PHHandshake(h)
    \/ \E h \in PHs : PHAdd(h)
    \/ \E h \in PHs : PHRecvParent(h)
    \/ \E h \in PHs : PHRecvRemote(h)
    \/ \E h \in PHs : PHExit(h)
    \/ \E h \in PHs : PHClose(h)
    \/ \E h \in PHs : PHFlush(h)
    \/ \E h \in PHs : Reader(h)
    \/ \E h \in PHs : DlFind(h)
    \/ \E h \in PHs : DlLoop(h)
    \/ \E h \in PHs : DlSend(h)
    \/ \E h \in PHs : DlRecv(h)
    \/ \E h \in PHs : DlFlush(h)
    \/ MapRace

(***************************************************************************)
(* Inputs.                                                                 *)
(***************************************************************************)
Cmd(id, tor) == [Id |-> id, Torrent |-> tor]

\* One piece of 16 bytes.
OnePiece(framed) == [count |-> 1, PieceLength |-> 16, total |-> 16, framed |-> framed]

\* Nine pieces of n blocks of MaxRequestLength bytes, the last piece shorter.
NinePieces(n, framed) ==
    [count |-> 9, PieceLength |-> n * MaxRequestLength,
     total |-> 8 * n * MaxRequestLength + 100, framed |-> framed]

\* Eight pieces of one block of MaxRequestLength bytes, the last piece shorter.
EightPieces ==
    [count |-> 8, PieceLength |-> MaxRequestLength,
     total |-> 7 * MaxRequestLength + 100, framed |-> TRUE]

\* Seventeen pieces of one block of MaxRequestLength bytes, the last piece
\* shorter.
SeventeenPieces ==
    [count |-> 17, PieceLength |-> MaxRequestLength,
     total |-> 16 * MaxRequestLength + 100, framed |-> TRUE]

\* A remote that sends up to MaxRecv messages of its own choice.
Free == [n \in 1..MaxRecv |-> {"Bitfield", "UnChoke", "Choke", "Piece", "Forged"}]

\* A remote that serves one block after another.
Serving(n) == <<{"Bitfield"}, {"UnChoke"}>> \o [k \in 1..n |-> {"Piece", "Forged"}]

\* A remote whose connection fails.
Failing == <<{"Err"}>>

\* A remote that sends nothing.
Silent == <<>>

\* A remote that unchokes, chokes and unchokes again.
Chatty == <<{"UnChoke"}, {"Choke"}, {"UnChoke"}>>

\* The front end adds a torrent.
AddOnly == <<{Cmd("Add", "t1")}>>

\* The front end adds a torrent and sends up to MaxCmd commands of its choice.
AddThen ==
    AddOnly \o [n \in 1..MaxCmd |->
                  {Cmd("List", NoTorrent), Cmd("Quit", NoTorrent)}]

Scenario(shape, script, ticks, peers, announce, handshake, io, remote, bitfields) ==
    [torrents |-> [t \in InfoHashes |-> shape], script |-> script, ticks |-> ticks,
     peers |-> peers, announce |-> announce, handshake |-> handshake, io |-> io,
     remote |-> remote, bitfields |-> bitfields, haves |-> {}, slots |-> MaxPH,
     direct |-> {}, chan |-> ChanSize]

Always(v) == [k \in PeerKeys |-> v]

\* One torrent is added and downloaded from one remote.
OnePeer ==
    {Scenario(shape, AddOnly, 0, {"a:1"}, {TRUE}, Always({TRUE}), BOOLEAN,
              Always(Free), {<<128>>, <<1, 0>>}) :
        shape \in {OnePiece(FALSE), NinePieces(1, FALSE), NinePieces(1, TRUE)}}

\* One torrent is added and downloaded from two remotes that serve a block.
TwoPeers ==
    {Scenario(NinePieces(1, TRUE), AddOnly, 0, PeerKeys, {TRUE}, Always({TRUE}), {TRUE},
              Always(Serving(1)), {<<1, 0>>})}

\* One torrent of two-block pieces is downloaded from one remote.
TwoBlocks ==
    {Scenario(NinePieces(2, TRUE), AddOnly, MaxTick, {"a:1"}, {TRUE}, Always({TRUE}), {TRUE},
              Always(Serving(2)), {<<1, 0>>})}

\* The peers of a torrent fail: one in the handshake, the other later, on the
\* connection.
Retry ==
    {Scenario(NinePieces(1, TRUE), AddOnly, 0, PeerKeys, {TRUE},
              [k \in PeerKeys |-> IF k = "a:1" THEN {TRUE} ELSE {FALSE}], {TRUE},
              Always(Failing), {<<1, 0>>})}

\* The commands of the front end; the tracker may not answer.
Commands ==
    {Scenario(NinePieces(1, TRUE), AddThen, MaxTick, {"a:1"}, BOOLEAN, Always({TRUE}), {TRUE},
              Always(Silent), {<<1, 0>>})}

\* The connection of the only peer fails, and the front end quits.
Closing ==
    {Scenario(NinePieces(1, TRUE), AddOnly \o <<{Cmd("Quit", NoTorrent)}>>, 0, {"a:1"},
              {TRUE}, Always({TRUE}), {TRUE}, Always(Failing), {<<1, 0>>})}

\* The peers of a tracker response that names MaxPeers peers.
CrowdKeys == {"c1:1", "c2:1", "c3:1", "c4:1", "c5:1", "c6:1", "c7:1", "c8:1"}

\* A torrent with MaxPeers peers: one answers the handshake and then its
\* connection fails, the others have not answered the handshake yet.
Crowd ==
    {[Scenario(NinePieces(1, TRUE), AddOnly, 0, CrowdKeys, {TRUE},
               [k \in CrowdKeys |-> IF k = "c1:1" THEN {TRUE} ELSE {}], {TRUE},
               [k \in CrowdKeys |-> Failing], {<<1, 0>>})
        EXCEPT !.slots = MaxPeers + 1]}

\* The front end adds the same torrent twice; the tracker, which may not
\* answer, knows no peers.
Doubled ==
    {Scenario(NinePieces(1, TRUE), AddOnly \o AddOnly, 0, {}, BOOLEAN, Always({TRUE}),
              {TRUE}, Always(Silent), {<<1, 0>>})}

\* The front end adds a torrent and sends a command addressed to it.
Addressed ==
    {Scenario(NinePieces(1, TRUE),
              AddOnly \o <<{Cmd(id, "t1") : id \in {"Remove", "Start", "Stop"}}>>,
              0, {"a:1"}, {TRUE}, Always({TRUE}), {TRUE}, Always(Silent), {<<1, 0>>})}

\* A torrent without peers whose tracker answers some announces and not
\* others, for long enough to give up after a success.
Announcing ==
    {Scenario(NinePieces(1, TRUE), AddOnly, MaxRetryCount + 2, {}, BOOLEAN, Always({TRUE}),
              {TRUE}, Always(Silent), {<<1, 0>>})}

\* A remote that sends a HAVE, for a piece of the torrent or for an index
\* beyond its pieces, or a message with an id the client does not know.
Having ==
    {[Scenario(NinePieces(1, TRUE), AddOnly, 0, {"a:1"}, {TRUE}, Always({TRUE}), {TRUE},
               Always(<<{"Have", "Port"}>>), {<<1, 0>>})
        EXCEPT !.haves = {0, 7, 9, 16}]}

\* The remote sends one BITFIELD, of one byte or of two.
Bitfields ==
    {Scenario(NinePieces(1, TRUE), AddOnly, 0, {"a:1"}, {TRUE}, Always({TRUE}), {TRUE},
              Always(<<{"Bitfield"}>>), {<<128>>, <<1, 0>>})}

\* A torrent of eight pieces is downloaded from one remote, whose BITFIELD
\* of one byte or of two advertises the last piece.
Eights ==
    {Scenario(EightPieces, AddOnly, 0, {"a:1"}, {TRUE}, Always({TRUE}), {TRUE},
              Always(Serving(1)), {<<1>>, <<1, 0>>})}

\* The remote advertises piece 7, unchokes, and answers the request with
\* the first block of another piece.
Unasked ==
    {Scenario(NinePieces(1, TRUE), AddOnly, 0, {"a:1"}, {TRUE}, Always({TRUE}), {TRUE},
              Always(<<{"Bitfield"}, {"UnChoke"}, {"Other"}>>), {<<1, 0>>})}

\* A torrent of eight pieces is downloaded from one remote, which answers
\* every request with the first block of another piece.
Overrun ==
    {Scenario(EightPieces, AddOnly, 0, {"a:1"}, {TRUE}, Always({TRUE}), {TRUE},
              Always(<<{"Bitfield"}, {"UnChoke"}, {"Other"}, {"Other"}, {"Other"}, {"Other"},
                       {"Other"}, {"Other"}, {"Other"}, {"Other"}>>),
              {<<1, 0>>})}

\* A torrent of seventeen pieces is downloaded over queues of NarrowChan
\* messages from one remote, which advertises two of the pieces and serves
\* them, and then its connection fails.
Narrow ==
    {[Scenario(SeventeenPieces, AddOnly, 0, {"a:1"}, {TRUE}, Always({TRUE}), {TRUE},
               Always(<<{"Bitfield"}, {"UnChoke"}, {"Piece"}, {"Piece"}, {"Err"}>>),
               {<<1, 1, 0>>})
        EXCEPT !.chan = NarrowChan]}

\* The download of a torrent, and the announces of the torrent handler.
Downloads ==
    OnePeer \cup TwoPeers \cup TwoBlocks \cup Closing \cup Announcing \cup Doubled \cup Bitfields
            \cup Addressed

Init == \E c \in Downloads : InitWith(c) /\ codec = NoCodec /\ disk = NoDisk

Spec == Init /\ [][Next]_vars

\* The supervision of the handlers: failures, retries and commands.
Supervision ==
    Retry \cup Commands \cup TwoBlocks \cup Crowd \cup Doubled \cup Addressed \cup Having \cup Eights
          \cup Unasked \cup Narrow \cup Overrun

InitSup == \E c \in Supervision : InitWith(c) /\ codec = NoCodec /\ disk = NoDisk

SupSpec == InitSup /\ [][Next]_vars

\* The same with every task that can take a step taking one sooner or later:
\* the scheduler of the runtime runs every goroutine that is runnable.
\* The remote advertises piece 7 and unchokes, then its connection fails.
Dropping ==
    {Scenario(NinePieces(1, TRUE), AddOnly, 0, {"a:1"}, {TRUE}, Always({TRUE}), {TRUE},
              Always(<<{"Bitfield"}, {"UnChoke"}, {"Err"}>>), {<<1, 0>>})}

InitFair == \E c \in Retry \cup Commands \cup TwoBlocks \cup Dropping : InitWith(c) /\ codec = NoCodec /\ disk = NoDisk

FairSpec == InitFair /\ [][Next]_vars /\ WF_vars(Next)

\* One torrent is added and downloaded from two remotes: one serves a block,
\* the other sends no BITFIELD and unchokes and chokes.
Mixed ==
    {Scenario(NinePieces(1, TRUE), AddOnly, 0, PeerKeys, {TRUE}, Always({TRUE}), {TRUE},
              [k \in PeerKeys |-> IF k = "a:1" THEN Serving(1) ELSE Chatty], {<<1, 0>>})}

\* The downloads of one remote and of two, with the failures and the
\* commands, under the same scheduling.
InitHave == \E c \in Mixed \cup TwoBlocks \cup Retry \cup Commands : InitWith(c) /\ codec = NoCodec /\ disk = NoDisk

HaveSpec == InitHave /\ [][Next]_vars /\ WF_vars(Next)

\* The torrent handler with its commands.  Start and Stop arrive on the queue
\* of the torrent handler while its peer sends nothing; or Stop arrives while
\* its peer sends nothing, or unchokes and chokes, and the interval timer
\* fires.
Directed ==
    {[Scenario(NinePieces(1, TRUE), AddOnly, 0, {"a:1"}, {TRUE}, Always({TRUE}), {TRUE},
               Always(Silent), {<<1, 0>>})
        EXCEPT !.direct = {"Start", "Stop"}]}
    \cup
    {[Scenario(NinePieces(1, TRUE), AddOnly, MaxTick, {"a:1"}, {TRUE}, Always({TRUE}), {TRUE},
               Always(r), {<<1, 0>>})
        EXCEPT !.direct = {"Stop"}] : r \in {Silent, Chatty}}

HandlerNext == Next \/ \E i \in THs : \E id \in {"Start", "Stop"} : Deliver(i, id)

InitHandler == \E c \in Directed \cup Commands \cup TwoBlocks : InitWith(c) /\ codec = NoCodec /\ disk = NoDisk

HandlerSpec == InitHandler /\ [][HandlerNext]_vars /\ WF_vars(HandlerNext)

(***************************************************************************)
(* The wire codec of a Peer: Send and SendData write one frame to the      *)
(* Connection, Recv reads one message from it.  The Connection delivers    *)
(* what was written in order; a Read fills its buffer when that many       *)
(* bytes were written, and fails at the deadline when no more bytes come.  *)
(***************************************************************************)
\* The variables of the tasks of the program.
program == <<cfg, comView, comTorrentHandler, comPeerHandler, view, ctrl, th, tracker,
             storage, peerObj, ph, rd, dl, readChannel, downloadChannel, panic>>

\* The local side calls Send.
PeerSend ==
    /\ codec.pc = "call"
    /\ codec.op = "Send"
    /\ LET r == Send(codec.id, codec.input)
       IN  codec' = [codec EXCEPT !.pc = IF r.err THEN "unsent" ELSE "sent",
                                  !.frame = r.data, !.conn = r.data]
    /\ UNCHANGED <<program, disk>>

\* The local side calls SendData.
PeerSendData ==
    /\ codec.pc = "call"
    /\ codec.op = "SendData"
    /\ LET r == SendData(codec.id, codec.payload)
       IN  codec' = [codec EXCEPT !.pc = IF r.err THEN "unsent" ELSE "sent",
                                  !.frame = r.data, !.conn = r.data]
    /\ UNCHANGED <<program, disk>>

\* The remote side, running the same code, calls Recv.
PeerRecv ==
    /\ codec.pc = "sent"
    /\ LET r == Recv(codec.conn)
       IN  codec' = [codec EXCEPT !.pc = "done", !.conn = r.left,
                                  !.recv = [Id |-> r.Id, Data |-> r.Data, Err |-> r.Err]]
    /\ UNCHANGED <<program, disk>>

CodecNext == PeerSend \/ PeerSendData \/ PeerRecv

\* The arguments of Send: none, a piece index, or index, begin and length.
SendInputs ==
    {<<>>} \cup {<<v>> : v \in {0, 258, 16909060}}
           \cup {<<v, MaxRequestLength, MaxRequestLength>> : v \in {0, 258, 16909060}}

\* The payload lengths of SendData: short ones, the ones around a length
\* prefix of 256, a whole block with its index and begin, and one over the
\* limit of Recv.
PayloadLengths ==
    {0, 1, 2, 8, 254, 255, 256, 257, MaxRequestLength + 8, 2 * MaxRequestLength + 1}

Payload(n, b) == [j \in 1..n |-> (b + j) % 256]

\* The calls of Send and of SendData that are looked at.
CodecCalls ==
    {[NoCodec EXCEPT !.pc = "call", !.op = "Send", !.id = id, !.input = input] :
        id \in MessageIds, input \in SendInputs}
    \cup
    {[NoCodec EXCEPT !.pc = "call", !.op = "SendData", !.id = id, !.payload = Payload(n, b)] :
        id \in {MessageId.Bitfield, MessageId.Piece}, n \in PayloadLengths, b \in {0, 200}}

InitCodec == \E c \in OnePeer, w \in CodecCalls : InitWith(c) /\ codec = w /\ disk = NoDisk

\* One call of Send or SendData and the Recv of what it wrote.
CodecSpec == InitCodec /\ [][CodecNext]_vars

(***************************************************************************)
(* The files of a Torrent: WriteData writes the block of a PIECE payload   *)
(* to the files, ReadData reads the block a REQUEST names from them.  A    *)
(* file is the sequence of its bytes; the files are a function from the    *)
(* paths that exist to their content.  A path is <<directory, k>> for the  *)
(* k-th file of the metainfo.  DownloadPath is "": WriteData opens the     *)
(* relative path of the file, which is in the working directory, ReadData  *)
(* opens "/" followed by it, which is in the root directory.               *)
(***************************************************************************)
\* getFiles: the Files of a metainfo whose files have these lengths, each
\* with its start index in the byte stream.
RECURSIVE getFiles(_)
getFiles(lengths) ==
    IF lengths = <<>> THEN <<>>
    ELSE LET before == getFiles(SubSeq(lengths, 1, Len(lengths) - 1))
             totalLength == IF before = <<>> THEN 0
                            ELSE before[Len(before)].Index + before[Len(before)].Length
         IN  Append(before, [Index |-> totalLength, Length |-> lengths[Len(lengths)]])

\* The total length of the byte stream.
StreamLength(info) ==
    LET last == info.Files[Len(info.Files)] IN last.Index + last.Length

\* The Info of a metainfo: the piece length, the number of digests in Pieces, the Files.
Info(pieceLength, lengths) ==
    LET Files == getFiles(lengths)
        total == Files[Len(Files)].Index + Files[Len(Files)].Length
    IN  [PieceLength |-> pieceLength,
         count |-> (total + pieceLength - 1) \div pieceLength,
         Files |-> Files]

\* filepath.FromSlash(cons.DownloadPath + strings.Join(file.Path, "/")) in WriteData
WritePath(atRoot, k) == <<IF atRoot THEN "/" ELSE ".", k>>

\* filepath.FromSlash(cons.DownloadPath + "/" + strings.Join(file.Path, "/")) in ReadData
ReadPath(k) == <<"/", k>>

\* os.OpenFile(path, os.O_WRONLY|os.O_CREATE, 0444): the file exists afterwards.
Created(files, path) ==
    [q \in DOMAIN files \cup {path} |-> IF q \in DOMAIN files THEN files[q] ELSE <<>>]

\* f.Seek(seekPos, 0) and f.Write(chunk): a write past the end of the file
\* fills the gap with zero bytes, a write of no byte leaves the file as it is.
WriteAt(bytes, seekPos, chunk) ==
    IF chunk = <<>> THEN bytes
    ELSE LET end == seekPos + Len(chunk)
             n == IF Len(bytes) > end THEN Len(bytes) ELSE end
         IN  [j \in 1..n |-> IF j > seekPos /\ j <= end THEN chunk[j - seekPos]
                             ELSE IF j <= Len(bytes) THEN bytes[j] ELSE 0]

\* The loop over t.Info.Files of WriteData, from the k-th file on, with off
\* bytes of data written.  The slice data[off : off+amountToWrite] panics
\* when amountToWrite is negative or the slice ends past the data.
RECURSIVE WriteLoop(_, _, _, _, _, _, _)
WriteLoop(info, atRoot, files, requestIndex, data, k, off) ==
    IF k > Len(info.Files) THEN [panic |-> FALSE, files |-> files]
    ELSE LET file == info.Files[k] IN
         IF requestIndex < file.Index
         THEN WriteLoop(info, atRoot, files, requestIndex, data, k + 1, off)
         ELSE LET path == WritePath(atRoot, k)
                  opened == Created(files, path)
                  seekPos == requestIndex - file.Index
                  amountToWrite == IF file.Length - seekPos > Len(data) THEN Len(data)
                                   ELSE file.Length - seekPos
              IN  IF amountToWrite < 0 \/ off + amountToWrite > Len(data)
                  THEN [panic |-> TRUE, files |-> opened]
                  ELSE LET chunk == SubSeq(data, off + 1, off + amountToWrite)
                           written == [opened EXCEPT ![path] = WriteAt(@, seekPos, chunk)]
                       IN  IF off + amountToWrite >= Len(data)
                           THEN [panic |-> FALSE, files |-> written]
                           ELSE WriteLoop(info, atRoot, written, requestIndex, data,
                                          k + 1, off + amountToWrite)

\* Torrent.WriteData of the block data of piece pieceIndex at begin: the
\* number of bytes it reports, its error, whether it panics, and the files.
WriteDataBytes(info, atRoot, files, pieceIndex, begin, data) ==
    IF pieceIndex >= info.count \/ begin >= info.PieceLength \/ Len(data) > MaxRequestLength
    THEN [n |-> 0, err |-> TRUE, panic |-> FALSE, files |-> files]
    ELSE LET requestIndex == pieceIndex * info.PieceLength + begin
             w == WriteLoop(info, atRoot, files, requestIndex, data, 1, 0)
         IN  [n |-> IF w.panic THEN 0 ELSE Len(data), err |-> FALSE,
              panic |-> w.panic, files |-> w.files]

\* The loop over t.Info.Files of ReadData, from the k-th file on: data is the
\* buffer of length bytes, filled the first bytes are.  f.Read at or past the
\* end of the file returns io.EOF.
RECURSIVE ReadLoop(_, _, _, _, _, _)
ReadLoop(info, files, requestIndex, data, k, filled) ==
    IF k > Len(info.Files) THEN [data |-> data, err |-> FALSE]
    ELSE LET file == info.Files[k] IN
         IF requestIndex < file.Index
         THEN ReadLoop(info, files, requestIndex, data, k + 1, filled)
         ELSE LET path == ReadPath(k)
                  seekPos == requestIndex - file.Index
                  room == Len(data) - filled
              IN  IF path \notin DOMAIN files THEN [data |-> <<>>, err |-> TRUE]
                  ELSE LET left == Len(files[path]) - seekPos
                           n == IF room = 0 THEN 0 ELSE IF left < room THEN left ELSE room
                       IN  IF room > 0 /\ left <= 0 THEN [data |-> <<>>, err |-> TRUE]
                           ELSE LET got == [j \in 1..Len(data) |->
                                               IF j > filled /\ j <= filled + n
                                               THEN files[path][seekPos + j - filled]
                                               ELSE data[j]]
                                IN  IF n < Len(data)
                                    THEN ReadLoop(info, files, requestIndex, got, k + 1, filled + n)
                                    ELSE [data |-> got, err |-> FALSE]

\* Torrent.ReadData of length bytes of piece pieceIndex from begin.
ReadData(info, files, pieceIndex, begin, length) ==
    IF pieceIndex <= 0 \/ pieceIndex >= info.count
       \/ begin <= 0 \/ begin >= info.PieceLength
       \/ length > MaxRequestLength
    THEN [data |-> <<>>, err |-> TRUE]
    ELSE ReadLoop(info, files, pieceIndex * info.PieceLength + begin,
                  [j \in 1..length |-> 0], 1, 0)

\* The downloader writes the block of a PIECE payload.
TorrentWriteData ==
    /\ disk.pc = "call"
    /\ LET w == WriteDataBytes(disk.info, disk.atRoot, disk.files,
                               disk.pieceIndex, disk.begin, disk.data)
       IN  disk' = [disk EXCEPT !.pc = IF w.panic THEN "panic"
                                       ELSE IF w.err THEN "failed" ELSE "written",
                                !.files = w.files,
                                !.wrote = [n |-> w.n, err |-> w.err]]
    /\ UNCHANGED <<program, codec>>

\* The peer handler reads the same block for a REQUEST.
TorrentReadData ==
    /\ disk.pc = "written"
    /\ LET r == ReadData(disk.info, disk.files, disk.pieceIndex, disk.begin, Len(disk.data))
       IN  disk' = [disk EXCEPT !.pc = "read", !.read = r]
    /\ UNCHANGED <<program, codec>>

DiskNext == TorrentWriteData \/ TorrentReadData

\* Metainfos with a piece length of 4 bytes: one file, and several files
\* whose lengths are not multiples of the piece length.
Infos == {Info(4, lengths) : lengths \in {<<8>>, <<3, 5>>, <<6, 6>>, <<2, 3, 7>>}}

\* The blocks of a metainfo: a piece, a begin inside the piece, and the bytes
\* of the block, which end inside the piece and inside the byte stream.  The
\* byte at the offset g of the stream is written g + 1.
Blocks(info) ==
    {[pieceIndex |-> p, begin |-> b,
      data |-> [j \in 1..n |-> p * info.PieceLength + b + j]] :
        p \in 0..(info.count - 1), b \in 0..(info.PieceLength - 1), n \in 1..info.PieceLength}

ValidBlocks(info) ==
    {x \in Blocks(info) :
        /\ x.begin + Len(x.data) <= info.PieceLength
        /\ x.pieceIndex * info.PieceLength + x.begin + Len(x.data) <= StreamLength(info)}

\* The calls of WriteData that are looked at, with the working directory
\* of the program being the root directory or not.
DiskCalls ==
    UNION {{[NoDisk EXCEPT !.pc = "call", !.info = info, !.atRoot = atRoot,
                           !.pieceIndex = x.pieceIndex, !.begin = x.begin, !.data = x.data] :
               atRoot \in BOOLEAN, x \in ValidBlocks(info)} : info \in Infos}

InitDisk == \E c \in OnePeer, d \in DiskCalls : InitWith(c) /\ codec = NoCodec /\ disk = d

\* One call of WriteData and the ReadData of the block it wrote.
DiskSpec == InitDisk /\ [][DiskNext]_vars

(***************************************************************************)
(* Properties.                                                             *)
(***************************************************************************)
\* Downloader h is inside downloadPiece with a piece it has claimed.
Claiming(h) == dl[h].pc \in {"loop", "send", "recv"}

SameTorrent(h1, h2) == ph[h1].th = ph[h2].th

\* Every block of piece p of the torrent of handler i is in storage, genuine.
Stored(i, p) ==
    \A b \in BlockOffsets(Tor(i), p) :
        PiecePayload(p, b, GenuineBlock(p, b, Min(MaxRequestLength,
                                                   TruePieceLength(Tor(i), p) - b)))
            \in storage[i]

CompletePieces(i) == {p \in 0..(Tor(i).count - 1) : Stored(i, p)}

RECURSIVE SumLengths(_, _)
SumLengths(tor, S) ==
    IF S = {} THEN 0
    ELSE LET p == CHOOSE q \in S : TRUE
         IN TruePieceLength(tor, p) + SumLengths(tor, S \ {p})

\* C1: among the peer handlers of one torrent no two downloaders are inside
\* downloadPiece for the same piece index at the same time.
C1_OneClaimPerPiece ==
    \A h1, h2 \in PHs :
        (h1 # h2 /\ SameTorrent(h1, h2) /\ Claiming(h1) /\ Claiming(h2))
            => dl[h1].pieceIndex # dl[h2].pieceIndex

\* One downloader holds piece 7 and the downloader of another peer handler
\* of the torrent, whose remote has the piece too, was given nothing.
C1_Witness ==
    \E h1, h2 \in PHs :
        /\ h1 # h2 /\ SameTorrent(h1, h2)
        /\ Claiming(h1) /\ dl[h1].pieceIndex = 7
        /\ dl[h2].pc = "done" /\ dl[h2].err = "nofree" /\ BitSet(dl[h2].scan, 7)

\* C2: every bit of BitFieldHave of a torrent is a bit of its
\* BitFieldDownloading.
C2_HaveWithinDownloading ==
    \A i \in THs :
        BitsOf(tracker[i].BitFieldHave) \subseteq BitsOf(tracker[i].BitFieldDownloading)

\* Two peer handlers have contended for piece 7 and it has been downloaded.
C2_Witness ==
    \E i \in THs, h \in PHs :
        /\ ph[h].th = i
        /\ dl[h].err = "nofree" /\ BitSet(dl[h].scan, 7)
        /\ BitSet(tracker[i].BitFieldHave, 7)
        /\ BitSet(tracker[i].BitFieldDownloading, 7)
        /\ Stored(i, 7)

\* C3: a bit of BitFieldHave is set only for a piece whose blocks have all
\* been received, verified and written.
C3_HaveOnlyStored ==
    \A i \in THs :
        th[i].pc # "free" => \A p \in BitsOf(tracker[i].BitFieldHave) : Stored(i, p)

\* C4: in the one-piece scenario, once the remote has sent BITFIELD 0x80 and
\* UNCHOKE, a downloader that has looked at that bitfield and has returned
\* leaves the piece downloaded: BitFieldHave is 0x80 and Downloaded is 16.
C4_OnePieceCompletes ==
    \A h \in PHs :
        (/\ ph[h].pc = "loop"
         /\ Tor(ph[h].th).count = 1
         /\ dl[h].pc = "done" /\ dl[h].scan = <<128>>
         /\ ~peerObj[ph[h].obj].PeerChoking)
            => /\ tracker[ph[h].th].BitFieldHave = <<128>>
               /\ tracker[ph[h].th].Downloaded = 16

\* C5: after a downloadPiece that ended on a hash mismatch the bit of the
\* piece is set neither in BitFieldDownloading nor in BitFieldHave, as long
\* as no other downloader has claimed the piece since.
C5_MismatchReleasesPiece ==
    \A h \in PHs :
        (/\ dl[h].pc = "done" /\ dl[h].err = "hash"
         /\ \A g \in PHs : (g # h /\ SameTorrent(g, h)) => dl[g].pc \in {"free", "find"})
            => /\ ~BitSet(tracker[ph[h].th].BitFieldDownloading, dl[h].pieceIndex)
               /\ ~BitSet(tracker[ph[h].th].BitFieldHave, dl[h].pieceIndex)

\* C6: Downloaded counts the bytes of the pieces that are complete in
\* storage and nothing else, and Left is the rest of the torrent.
C6_CountersCountPieces ==
    \A i \in THs :
        th[i].pc # "free" =>
            /\ tracker[i].Downloaded = SumLengths(Tor(i), CompletePieces(i))
            /\ tracker[i].Left = Tor(i).total - tracker[i].Downloaded

\* C7: the key of every peer handler that has been spawned and has not
\* returned is in the child map of the bundle of its torrent handler.
C7_AliveIsRegistered ==
    \A h \in PHs : PHAlive(h) => Exists(comPeerHandler[ph[h].th], ph[h].key)

\* The run has come to an end that is not the handlers' doing: the program
\* has panicked, or the numbers for new tasks have run out.
Cut == panic \/ FreePH = {} \/ FreeTH = {}

\* The controller has received Quit and a torrent handler has taken the Quit
\* the controller sent it.
QuitTaken == ctrl.quit /\ \E i \in THs : th[i].pc = "exit"

C9_OneExitingPerChild ==
    \A h \in PHs :
        (ph[h].pc = "done" /\ ph[h].out = <<>>)
            => ph[h].exiting = (IF ph[h].registered THEN 1 ELSE 0)

\* A queue of messages loses none: it stays where it is, and a step takes at
\* most its head.
Kept(before, after) ==
    \A k \in DOMAIN before :
        before[k] # <<>> =>
            /\ k \in DOMAIN after
            /\ \/ /\ Len(after[k]) >= Len(before[k])
                  /\ before[k] = SubSeq(after[k], 1, Len(before[k]))
               \/ /\ Len(after[k]) >= Len(before[k]) - 1
                  /\ Tail(before[k]) = SubSeq(after[k], 1, Len(before[k]) - 1)

\* C10: no step discards a message that waits in the queue of a child.
C10_NoMessageDropped ==
    [][/\ Kept(comView.children, comView'.children)
       /\ Kept(comTorrentHandler.children, comTorrentHandler'.children)
       /\ \A i \in THs : Kept(comPeerHandler[i].children, comPeerHandler'[i].children)]_vars

\* Peer handler h is inside RemoveChild: it has taken the mutex for writing,
\* has read the map and has not yet deleted its key.
InRemoveChild(h) == ph[h].pc = "close"

\* The step is a write of peer handler g to the child map of the bundle of
\* its torrent handler: the assignment of AddChild, or the delete of
\* RemoveChild.
MapWrite(g) ==
    \/ ph[g].pc = "add" /\ ph'[g].pc = "loop"
    \/ ph[g].pc = "close" /\ ph'[g].pc = "done"

\* C11: the accesses to the child map of a bundle are serialised by one
\* mutex: while a peer handler is inside RemoveChild, which holds the mutex
\* for writing, no other peer handler of the torrent writes the map.
C11_ChildMapSerialised ==
    [][\A h, g \in PHs :
          (h # g /\ SameTorrent(h, g) /\ InRemoveChild(h)) => ~MapWrite(g)]_vars

\* The peer handlers of torrent handler i that have been spawned and have
\* not returned.
AlivePeerHandlers(i) == {h \in PHs : ph[h].th = i /\ PHAlive(h)}

\* C12: a torrent never has more than MaxPeers peer handlers alive at the
\* same time.
C12_AtMostMaxPeers ==
    \A i \in THs : Cardinality(AlivePeerHandlers(i)) <= MaxPeers

\* C13: at most one torrent handler per info-hash is alive at any time.
C13_OneHandlerPerTorrent ==
    \A i, j \in THs :
        (i # j /\ THAlive(i) /\ THAlive(j)) => th[i].tor # th[j].tor

\* The step is the controller taking message m of the front end.
CtrlTakes(m) ==
    /\ ctrl.pc = "loop" /\ ctrl.out = <<>>
    /\ Exists(comView, controllerId)
    /\ comView.children[controllerId] # <<>>
    /\ m = Head(comView.children[controllerId])
    /\ comView'.children[controllerId] = Tail(comView.children[controllerId])

\* C14: a Remove, Start or Stop addressed to a torrent is sent to the
\* handler registered under the info-hash of the torrent, and the controller
\* sends Failure upward only when no handler is registered under it.
C14_CommandReachesHandler ==
    [][\A id \in {"Remove", "Start", "Stop"}, t \in InfoHashes :
          CtrlTakes(Message(id, <<>>, FALSE, t, controllerId)) =>
              /\ Len(ctrl'.out) = 1
              /\ IF Exists(comTorrentHandler, t)
                 THEN /\ ctrl'.out[1].to = "child"
                      /\ ctrl'.out[1].key = t
                      /\ ctrl'.out[1].msg.Id = id
                 ELSE /\ ctrl'.out[1].to = "parent"
                      /\ ctrl'.out[1].msg.Id = "Failure"]_vars

\* The number of failed announces at the end of a sequence of outcomes.
RECURSIVE TrailingFailures(_)
TrailingFailures(hist) ==
    IF hist = <<>> \/ hist[Len(hist)] THEN 0
    ELSE 1 + TrailingFailures(SubSeq(hist, 1, Len(hist) - 1))

\* The messages with the id that torrent handler i has sent to the controller
\* or is about to send.
Emitted(i, id) ==
    th[i].sent[id]
        + Cardinality({n \in DOMAIN th[i].out :
                          th[i].out[n].to = "parent" /\ th[i].out[n].msg.Id = id})

\* C15: retryCount is the number of periodic announces that have failed since
\* the last one that succeeded; the torrent handler sends TotalFailure, once,
\* and leaves its loop exactly when that number has reached MaxRetryCount.
C15_RetryCountsFailures ==
    \A i \in THs :
        th[i].pc # "free" =>
            /\ th[i].retryCount = TrailingFailures(th[i].hist)
            /\ Emitted(i, "TotalFailure") =
                  (IF TrailingFailures(th[i].hist) >= MaxRetryCount THEN 1 ELSE 0)
            /\ (TrailingFailures(th[i].hist) >= MaxRetryCount) <=>
                  (th[i].first = "ok" /\ th[i].pc \in {"exit", "close", "done"}
                      /\ Emitted(i, "TotalFailure") = 1)

\* A handler has given up after MaxRetryCount failures that followed a
\* failure and a success, and has returned.
C15_Witness ==
    \E i \in THs :
        /\ Len(th[i].hist) = MaxRetryCount + 2
        /\ ~th[i].hist[1] /\ th[i].hist[2]
        /\ th[i].sent["TotalFailure"] = 1
        /\ ~THAlive(i)

\* C16: a torrent handler whose first announce has failed sends exactly one
\* Add, with the error, and returns: it does not register, it starts no peer
\* handler and it sends no Exiting.
C16_FirstAnnounceFailure ==
    \A i \in THs :
        th[i].first = "failed" =>
            /\ th[i].pc = "done"
            /\ Emitted(i, "Add") = 1
            /\ \A n \in DOMAIN th[i].out : th[i].out[n].msg.Error
            /\ ~th[i].registered
            /\ \A h \in PHs : ph[h].th # i
            /\ Emitted(i, "Exiting") = 0
            /\ Emitted(i, "TotalFailure") = 0

\* A handler whose first announce failed has returned, and a second handler
\* of the same torrent has registered.
C16_Witness ==
    \E i, j \in THs :
        /\ th[i].first = "failed" /\ ~THAlive(i) /\ th[i].sent["Add"] = 1
        /\ i # j /\ th[j].tor = th[i].tor /\ th[j].registered
        /\ Exists(comTorrentHandler, th[i].tor)

\* Peer handler h has left its loop because of a failure.
PHFailed(h) == ph[h].cause \in {"handshake", "read", "have", "id"}

\* The step is torrent handler i answering a TotalFailure by starting peer
\* handler g.
Replaces(i, g) ==
    /\ th[i].pc = "loop" /\ th[i].out = <<>>
    /\ comPeerHandler[i].Parent # <<>>
    /\ Head(comPeerHandler[i].Parent).Id = "TotalFailure"
    /\ comPeerHandler'[i].Parent = Tail(comPeerHandler[i].Parent)
    /\ ph[g].pc = "free" /\ ph'[g].pc = "hs" /\ ph'[g].th = i

\* C17: the peer handler a torrent handler starts on a TotalFailure is for a
\* peer that has no peer handler alive and whose handler has not failed.
C17_ReplacementIsFresh ==
    [][\A i \in THs, g \in PHs :
          Replaces(i, g) =>
              \A h \in PHs \ {g} :
                  (ph[h].th = i /\ ph[h].key = ph'[g].key)
                      => (~PHAlive(h) /\ ~PHFailed(h))]_vars

\* Peer handler h has ended because of a failure: it has returned, or the
\* program has ended in it.
AbnormalEnd(h) ==
    /\ PHFailed(h)
    /\ ph[h].pc = "crash" \/ (ph[h].pc = "done" /\ ph[h].out = <<>>)

\* C18: a peer handler that has ended because of a failure has sent exactly
\* one TotalFailure to the torrent handler.
C18_FailureReportedOnce ==
    \A h \in PHs : AbnormalEnd(h) => ph[h].sent["TotalFailure"] = 1

\* The step is a periodic announce of torrent handler i that has succeeded.
Announced(i) ==
    /\ th[i].pc = "loop"
    /\ th'[i].ticks = th[i].ticks + 1
    /\ th'[i].hist = Append(th[i].hist, TRUE)

\* C19: a successful announce keeps the peers the map of the tracker state
\* held before it: each key is still in the map, and the record it maps to
\* has the remote bitfield and the state flags it had before the announce.
C19_AnnounceKeepsPeers ==
    [][\A i \in THs :
          Announced(i) =>
              \A k \in DOMAIN tracker[i].Peers :
                  /\ k \in DOMAIN tracker'[i].Peers
                  /\ peerObj'[tracker'[i].Peers[k]] = peerObj[tracker[i].Peers[k]]]_vars

\* The arguments a call of Send puts into its frame.
SentArgs(c) ==
    IF c.id \in {MessageId.Have, MessageId.Request, MessageId.Cancel} THEN c.input ELSE <<>>

\* The length of the payload of the call.
PayloadLen(c) == IF c.op = "SendData" THEN Len(c.payload) ELSE 4 * Len(SentArgs(c))

\* Recv has returned the message id and the payload of the call.
Decoded(c) ==
    /\ ~c.recv.Err
    /\ c.recv.Id = c.id
    /\ Len(c.recv.Data) = PayloadLen(c)
    /\ IF c.op = "SendData" THEN c.recv.Data = c.payload
       ELSE \A j \in 1..Len(SentArgs(c)) :
               Uint32(SubSeq(c.recv.Data, 4 * j - 3, 4 * j)) = SentArgs(c)[j]

\* C20: the frame Send or SendData has written starts with its length as
\* four big-endian bytes, 1 + the length of the payload, then the message id
\* (a KeepAlive is the length 0 alone); Recv decodes the frame to the same
\* message id and payload when the payload is within the limit of Recv,
\* and returns an error, never a shortened message, when it is over it.
C20_FrameRoundTrips ==
    codec.pc = "done" =>
        /\ codec.id # MessageId.KeepAlive =>
               /\ Len(codec.frame) = 5 + PayloadLen(codec)
               /\ Uint32(SubSeq(codec.frame, 1, 4)) = 1 + PayloadLen(codec)
               /\ codec.frame[5] = codec.id
        /\ IF PayloadLen(codec) <= 2 * MaxRequestLength
           THEN Decoded(codec)
           ELSE codec.recv.Err

\* The byte at the offset g of the byte stream, as the files hold it: the
\* byte at g - Index of the file whose range contains g, 0 when the file
\* does not exist or is shorter.
StreamByte(info, atRoot, files, g) ==
    LET k == CHOOSE k \in 1..Len(info.Files) :
                 info.Files[k].Index <= g /\ g < info.Files[k].Index + info.Files[k].Length
        path == WritePath(atRoot, k)
        pos == g - info.Files[k].Index + 1
    IN  IF path \in DOMAIN files /\ pos <= Len(files[path]) THEN files[path][pos] ELSE 0

\* C21: WriteData of a valid block returns without a panic or an error with
\* every byte of the block at its offset piece_index * piece_length + begin
\* + j of the byte stream, in the file whose range contains that offset; and
\* ReadData of the same piece index, begin and length returns the bytes
\* written.
C21_BlockLandsAndReadsBack ==
    /\ disk.pc \in {"panic", "failed", "written", "read"} =>
           /\ disk.pc \in {"written", "read"}
           /\ \A j \in 1..Len(disk.data) :
                  StreamByte(disk.info, disk.atRoot, disk.files,
                             disk.pieceIndex * disk.info.PieceLength + disk.begin + j - 1)
                      = disk.data[j]
    /\ disk.pc = "read" => ~disk.read.err /\ disk.read.data = disk.data

\* The step is peer handler h taking a HAVE of the remote off its read queue.
TakesHave(h) ==
    /\ ~panic
    /\ ph[h].pc = "loop"
    /\ ph[h].out = <<>>
    /\ readChannel[h] # <<>>
    /\ ~Head(readChannel[h]).Err
    /\ Head(readChannel[h]).Id = "Have"
    /\ readChannel'[h] = Tail(readChannel[h])

\* C22: a peer handler that takes a HAVE whose index is not a piece index of
\* the torrent (index >= piece count) reports TotalFailure and returns, with
\* the remote bitfield of the peer as it was and no access outside of it.
C22_HaveOutOfRangeRejected ==
    [][\A h \in PHs :
          (TakesHave(h) /\ Head(readChannel[h]).Data[1] >= Tor(ph[h].th).count) =>
              /\ ~panic'
              /\ ph'[h].pc = "exit"
              /\ ph'[h].out = <<SendParentError("TotalFailure", FALSE)>>
              /\ peerObj' = peerObj]_vars

\* The step is peer handler h taking a BITFIELD of the remote off its read queue.
TakesBitfield(h) ==
    /\ ~panic
    /\ ph[h].pc = "loop"
    /\ ph[h].out = <<>>
    /\ readChannel[h] # <<>>
    /\ ~Head(readChannel[h]).Err
    /\ Head(readChannel[h]).Id = "Bitfield"
    /\ readChannel'[h] = Tail(readChannel[h])

CtrlSendsChild ==
    /\ ~panic
    /\ ctrl.pc = "loop" /\ ctrl.out = <<>>
    /\ Exists(comView, controllerId)
    /\ comView.children[controllerId] # <<>>
    /\ Head(comView.children[controllerId]).Id \in {"Remove", "Start", "Stop"}
    /\ comView'.children[controllerId] = Tail(comView.children[controllerId])

\* The step is the front end calling SendChild on its bundle.
ViewSendsChild == view'.sent = view.sent + 1

\* C24: SendChild with a key that is not in the child map puts nothing on
\* any queue, leaves the child map as it is and returns false (the
\* controller then answers Failure); with a registered key it puts one
\* message on the queue of that child, and nothing on any other queue.
C24_SendChildOnlyToRegistered ==
    [][/\ CtrlSendsChild =>
              LET id == Head(comView.children[controllerId]).Id
              IN  IF Exists(comTorrentHandler, controllerId)
                  THEN ctrl'.out = <<Out("child", controllerId,
                                         Message(id, <<>>, FALSE, NoTorrent, controllerId))>>
                  ELSE /\ ctrl'.out = <<SendParent("Failure", <<>>, TRUE, NoTorrent, controllerId)>>
                       /\ comTorrentHandler' = comTorrentHandler
                       /\ comPeerHandler' = comPeerHandler
                       /\ comView'.Parent = comView.Parent
       /\ ViewSendsChild =>
              /\ Exists(comView, controllerId)
              /\ DOMAIN comView'.children = DOMAIN comView.children
              /\ Len(comView'.children[controllerId]) = Len(comView.children[controllerId]) + 1
              /\ SubSeq(comView'.children[controllerId], 1, Len(comView.children[controllerId]))
                     = comView.children[controllerId]
              /\ comView'.Parent = comView.Parent
              /\ comTorrentHandler' = comTorrentHandler
              /\ comPeerHandler' = comPeerHandler]_vars

\* The front end has sent Add and a Remove, Start or Stop; the controller
\* has taken the second, with a torrent handler registered, and holds the
\* Failure it answers when SendChild returns false.
C24_Witness ==
    /\ view.sent = 2
    /\ cfg.script[2] = {Cmd(id, "t1") : id \in {"Remove", "Start", "Stop"}}
    /\ Exists(comView, controllerId)
    /\ comView.children[controllerId] = <<>>
    /\ DOMAIN comTorrentHandler.children = {"t1"}
    /\ ctrl.out = <<SendParent("Failure", <<>>, TRUE, NoTorrent, controllerId)>>

\* The pieces the downloader of peer handler h may claim: the ones the
\* client has not and is not downloading, and the remote has advertised.
Claimable(h) ==
    {p \in 0..(Tor(ph[h].th).count - 1) :
        /\ ~BitSet(tracker[ph[h].th].BitFieldHave, p)
        /\ ~BitSet(tracker[ph[h].th].BitFieldDownloading, p)
        /\ BitSet(peerObj[ph[h].obj].RemoteBitField, p)}

\* C25: findFreePieceIndex returns the lowest piece the client has not, is
\* not downloading and the remote has advertised, and sets its bit in
\* BitFieldDownloading in the same step; it reports that no piece is free
\* only when there is no such piece.
C25_LowestClaimablePiece ==
    [][\A h \in PHs :
          (dl[h].pc = "find" /\ dl'[h].pc # "find") =>
              IF Claimable(h) = {}
              THEN dl'[h].pc = "done" /\ dl'[h].err = "nofree" /\ tracker' = tracker
              ELSE /\ dl'[h].pc = "loop"
                   /\ dl'[h].pieceIndex = Lowest(Claimable(h))
                   /\ BitsOf(tracker'[ph[h].th].BitFieldDownloading) =
                          BitsOf(tracker[ph[h].th].BitFieldDownloading)
                              \cup {Lowest(Claimable(h))}]_vars

\* The step is the downloader of peer handler h leaving downloadPiece before
\* the piece is complete: on an error record of its download queue, on a
\* block that fails the check of its digest, or on a failed write.
AbortsPiece(h) == dl[h].pc = "recv" /\ dl'[h].pc = "done"

\* C26: when downloadPiece is left before the piece is complete, the
\* deferred function clears the bit of the piece in BitFieldDownloading: the
\* bit is set after the return only if every block of the piece has been
\* verified and written.
C26_AbortReleasesClaim ==
    [][\A h \in PHs :
          AbortsPiece(h) =>
              (BitSet(tracker'[ph[h].th].BitFieldDownloading, dl[h].pieceIndex)
                  => Stored(ph[h].th, dl[h].pieceIndex))]_vars

\* C27: once a peer handler that had started its reader and its downloader
\* has returned, the reader and the downloader eventually return as well (in
\* a run that is not cut short).
C27_TasksEndWithHandler ==
    \A h \in PHs :
        (ph[h].pc = "done" /\ ph[h].registered)
            ~> (Cut \/ (rd[h].pc = "done" /\ dl[h].pc = "done"))

\* The pieces of the torrents of the scenarios.
PieceIndexes == 0..8

\* A Have is waiting to be passed on: on the queue of a torrent handler that
\* is in its loop, among the pending sends of that torrent handler, or on
\* the queue of a registered peer handler that is in its loop.
HaveWaiting ==
    \/ \E i \in THs :
          /\ th[i].pc = "loop"
          /\ \/ \E n \in DOMAIN comPeerHandler[i].Parent : comPeerHandler[i].Parent[n].Id = "Have"
             \/ \E n \in DOMAIN th[i].out : th[i].out[n].msg.Id = "Have"
    \/ \E h \in PHs :
          /\ ph[h].pc = "loop"
          /\ Exists(comPeerHandler[ph[h].th], ph[h].key)
          /\ \E n \in DOMAIN comPeerHandler[ph[h].th].children[ph[h].key] :
                comPeerHandler[ph[h].th].children[ph[h].key][n].Id = "Have"

\* The step is the downloader of peer handler h putting Have(p) on the queue
\* of its torrent handler.
ReportsHave(h, p) ==
    /\ dl[h].out # <<>>
    /\ dl'[h].out = Tail(dl[h].out)
    /\ dl[h].pieceIndex = p
    /\ Head(dl[h].out).msg.Id = "Have"

\* The step is torrent handler i taking a Have from the queue of its peer
\* handlers.
TakesHaveReport(i) ==
    /\ th[i].pc = "loop"
    /\ th[i].out = <<>>
    /\ comPeerHandler[i].Parent # <<>>
    /\ Head(comPeerHandler[i].Parent).Id = "Have"
    /\ comPeerHandler'[i].Parent = Tail(comPeerHandler[i].Parent)

\* The step is peer handler h taking Have(p) from its queue.
TakesHaveOf(h, p) ==
    /\ ph[h].pc = "loop"
    /\ ph[h].out = <<>>
    /\ Exists(comPeerHandler[ph[h].th], ph[h].key)
    /\ comPeerHandler[ph[h].th].children[ph[h].key] # <<>>
    /\ Head(comPeerHandler[ph[h].th].children[ph[h].key])
           = Message("Have", PutUint32(p), FALSE, NoTorrent, ph[h].key)
    /\ comPeerHandler'[ph[h].th].children[ph[h].key]
           = Tail(comPeerHandler[ph[h].th].children[ph[h].key])

\* Peer handler h has written HAVE(p) to its remote.
WroteHave(h, p) == Send(MessageId.Have, <<p>>).data \in ph[h].wrote

\* C28: the Have(p) a downloader reports carries p on the queue of the
\* torrent handler; taking a Have, the torrent handler sends it on to every
\* peer handler registered at that moment; a peer handler that takes Have(p)
\* writes HAVE(p), with the same piece index, to its remote; and no Have is
\* left waiting for ever with a torrent handler or a peer handler that is
\* in its loop (in a run that is not cut short).
C28_HaveReachesEveryPeer ==
    /\ [][\A h \in PHs : \A p \in PieceIndexes :
             ReportsHave(h, p) =>
                 /\ comPeerHandler'[ph[h].th].Parent # <<>>
                 /\ LET m == comPeerHandler'[ph[h].th].Parent[Len(comPeerHandler'[ph[h].th].Parent)]
                    IN m.Id = "Have" /\ m.Data = PutUint32(p)]_vars
    /\ [][\A i \in THs :
             TakesHaveReport(i) =>
                 \A k \in DOMAIN comPeerHandler[i].children :
                     \E n \in DOMAIN th'[i].out :
                         th'[i].out[n] =
                             Out("child", k, Message("Have", Head(comPeerHandler[i].Parent).Data,
                                                     FALSE, NoTorrent, k))]_vars
    /\ [][\A h \in PHs : \A p \in PieceIndexes :
             TakesHaveOf(h, p) => WroteHave(h, p)']_vars
    /\ <>[](Cut \/ ~HaveWaiting)

\* The step is torrent handler i taking a Start from its queue of commands.
TakesStart(i) ==
    /\ th[i].pc = "loop"
    /\ th[i].out = <<>>
    /\ Exists(comTorrentHandler, th[i].tor)
    /\ comTorrentHandler.children[th[i].tor] # <<>>
    /\ Head(comTorrentHandler.children[th[i].tor]).Id = "Start"
    /\ comTorrentHandler'.children[th[i].tor] = Tail(comTorrentHandler.children[th[i].tor])

TakesStop(i) ==
    /\ th[i].pc = "loop"
    /\ th[i].out = <<>>
    /\ Exists(comTorrentHandler, th[i].tor)
    /\ comTorrentHandler.children[th[i].tor] # <<>>
    /\ Head(comTorrentHandler.children[th[i].tor]).Id = "Stop"
    /\ comTorrentHandler'.children[th[i].tor] = Tail(comTorrentHandler.children[th[i].tor])

\* Torrent handler i has Quit messages of a Stop left to send.
QuitPending(i) == \E n \in DOMAIN th[i].out : th[i].out[n].msg.Id = "Quit"

\* After a Stop, the torrent handler of peer handler h, which is registered
\* and has not returned, has decided to send it Quit: the send is pending, or
\* the Quit is on the queue of h.
QuitOnTheWay(h) ==
    LET i == ph[h].th
        m == Message("Quit", <<>>, FALSE, NoTorrent, ph[h].key)
    IN /\ PHAlive(h)
       /\ ph[h].registered
       /\ Exists(comPeerHandler[i], ph[h].key)
       /\ \/ \E n \in DOMAIN th[i].out : th[i].out[n] = Out("child", ph[h].key, m)
          \/ \E n \in DOMAIN comPeerHandler[i].children[ph[h].key] :
                comPeerHandler[i].children[ph[h].key][n] = m

C31_HaveSetsBitOfPiece ==
    [][\A h \in PHs :
          (TakesHave(h) /\ Head(readChannel[h]).Data[1] < Tor(ph[h].th).count) =>
              BitsOf(peerObj'[ph[h].obj].RemoteBitField) =
                  BitsOf(peerObj[ph[h].obj].RemoteBitField) \cup {Head(readChannel[h]).Data[1]}]_vars


\* The bytes a bitfield of n pieces takes.
BytesFor(n) == (n + 7) \div 8

\* The step is peer handler h allocating the remote bitfield of its peer.
AllocatesBitfield(h) == ph[h].pc = "add" /\ ph'[h].pc = "loop"

\* C32: the remote bitfield a peer handler allocates has one byte for every
\* eight pieces of the torrent, rounded up, and a BITFIELD of that many bytes
\* of the remote is taken.
C32_BitfieldHasCeilBytes ==
    [][\A h \in PHs :
          /\ AllocatesBitfield(h) =>
                Len(peerObj'[ph[h].obj].RemoteBitField) = BytesFor(Tor(ph[h].th).count)
          /\ (TakesBitfield(h)
                /\ Len(Head(readChannel[h]).Data) = BytesFor(Tor(ph[h].th).count)) =>
                peerObj'[ph[h].obj].RemoteBitField = Head(readChannel[h]).Data]_vars

\* The step is the downloader of peer handler h claiming a piece.
ClaimsPiece(h) == dl[h].pc = "find" /\ dl'[h].pc = "loop"

\* The step is the downloader of peer handler h requesting a block.
RequestsBlock(h) == dl[h].pc = "send" /\ dl'[h].pc = "recv"

\* C33: the downloader downloads total - PieceLength * (count - 1) bytes of
\* the last piece and PieceLength bytes of every other piece, whatever has
\* been downloaded before, in blocks of at most MaxRequestLength bytes that
\* end where the piece ends.
C33_PieceLengthFromMetainfo ==
    [][\A h \in PHs :
          /\ ClaimsPiece(h) =>
                dl'[h].pieceLength = TruePieceLength(Tor(ph[h].th), dl'[h].pieceIndex)
          /\ RequestsBlock(h) =>
                /\ dl'[h].req[3] <= MaxRequestLength
                /\ dl'[h].req[2] + dl'[h].req[3]
                       <= TruePieceLength(Tor(ph[h].th), dl[h].pieceIndex)]_vars


\* The step is the downloader of peer handler h, which waits for the block
\* it has requested, taking a PIECE off its download queue.
TakesPiece(h) ==
    /\ ~panic
    /\ dl[h].pc = "recv"
    /\ ~dl[h].choked
    /\ downloadChannel[h] # <<>>
    /\ ~Head(downloadChannel[h]).Err
    /\ Head(downloadChannel[h]).Id = "Piece"
    /\ downloadChannel'[h] = Tail(downloadChannel[h])

\* C34: a PIECE the downloader takes while it waits for block (p, begin)
\* whose index is not p or whose begin is not begin is not written to the
\* storage, and the download of p does not advance.
C34_UnaskedPieceRejected ==
    [][\A h \in PHs :
          (TakesPiece(h)
              /\ (PayloadIndex(Head(downloadChannel[h]).Data) # dl[h].pieceIndex
                     \/ PayloadBegin(Head(downloadChannel[h]).Data) # dl[h].begin)) =>
              /\ storage' = storage
              /\ dl'[h].begin = dl[h].begin]_vars


\* C35: no REQUEST is written to the connection of a peer while its
\* PeerChoking is true, that is between the moment the peer handler has
\* taken a CHOKE and the moment it takes the next UNCHOKE.
C35_NoRequestWhileChoked ==
    [][\A h \in PHs : RequestsBlock(h) => ~peerObj[ph[h].obj].PeerChoking]_vars


\* Peer handler g is registered and in its loop under the key and in the
\* bundle of peer handler h.
SharesKey(h, g) ==
    /\ g # h
    /\ ph[g].th = ph[h].th
    /\ ph[g].key = ph[h].key
    /\ ph[g].registered
    /\ ph[g].pc = "loop"

\* C36: AddChild is never called with a key that is in the child map, so no
\* two peer handlers of a torrent are in their loops under one key, and the
\* RemoveChild of a peer handler that returns never takes away the queue
\* another peer handler reads.
C36_ChildKeysUnique ==
    [][\A h \in PHs :
          /\ (ph[h].pc = "add" /\ ph'[h].pc = "loop") =>
                ~Exists(comPeerHandler[ph[h].th], ph[h].key)
          /\ (ph[h].pc = "close" /\ ph'[h].pc = "done") =>
                ~\E g \in PHs : SharesKey(h, g)]_vars


\* Torrent handler i is blocked in a send to the queue of peer handler h,
\* which is full.
THBlockedOn(i, h) ==
    /\ ph[h].th = i
    /\ ph[h].registered
    /\ PHAlive(h)
    /\ th[i].out # <<>>
    /\ Head(th[i].out).to = "child"
    /\ Head(th[i].out).key = ph[h].key
    /\ Exists(comPeerHandler[i], ph[h].key)
    /\ ~CanSend(comPeerHandler[i].children[ph[h].key])

\* Peer handler h is blocked in a send to the queue of its torrent handler,
\* which is full (SendParentError, or the Exiting of RemoveChild); or in a
\* send to its download queue, which is full, while its downloader is
\* blocked in the SendParent of a Have, the queue of the torrent handler
\* being full.
BlockedOnParent(h) ==
    /\ ~CanSend(comPeerHandler[ph[h].th].Parent)
    /\ ph[h].out # <<>>
    /\ \/ Head(ph[h].out).to = "parent"
       \/ /\ Head(ph[h].out).to = "dl"
          /\ ~CanSend(downloadChannel[h])
          /\ dl[h].out # <<>>

\* C37: a torrent handler is never blocked in a send to the full queue of a
\* peer handler that is itself blocked in a send to the full queue of the
\* torrent handler.
C37_NoQueueDeadlock ==
    \A i \in THs : \A h \in PHs : ~(~panic /\ THBlockedOn(i, h) /\ BlockedOnParent(h))


\* Torrent handler i completes a send to the queue of one of its peer
\* handlers (SendChild, or one send of SendChildren).
SendsOnChildQueue(i) ==
    /\ th[i].out # <<>>
    /\ Head(th[i].out).to = "child"
    /\ th'[i].out = Tail(th[i].out)

\* C38: no send is made on a child queue that RemoveChild has closed: when
\* the torrent handler sends on the queue of a key, the key is in the map.
C38_NoSendAfterClose ==
    [][\A i \in THs :
          SendsOnChildQueue(i) => Exists(comPeerHandler[i], Head(th[i].out).key)]_vars


\* C39: the counters of a torrent balance: Downloaded + Left is the total
\* length of the torrent, and Left lies between 0 and the total length.
C39_CountersBalance ==
    \A i \in THs :
        th[i].pc # "free" =>
            /\ tracker[i].Downloaded + tracker[i].Left = Tor(i).total
            /\ 0 <= tracker[i].Left
            /\ tracker[i].Left <= Tor(i).total


\* The downloader of peer handler h has returned because it found no piece
\* to claim, and now the session is alive and unchoked and the remote
\* advertises a piece that findFreePieceIndex would claim.
Stranded(h) ==
    /\ dl[h].pc = "done"
    /\ dl[h].err = "nofree"
    /\ ph[h].pc = "loop"
    /\ ~peerObj[ph[h].obj].PeerChoking
    /\ ~findFreePieceIndex(Tor(ph[h].th), tracker[ph[h].th], peerObj[ph[h].obj]).err

=============================================================================
